---- MODULE Spec2Model ----
(***************************************************************************)
(* A model of the function-calling agent strategy                          *)
(* (src/strategies/function_calling.py) and of the MCP protocol clients    *)
(* (src/utils/mcp_client.py).                                              *)
(*                                                                         *)
(* The specifications that share the module:                               *)
(*   Spec      one run of FunctionCallingAgentStrategy._invoke             *)
(*   SpecSse   one McpSseClient: listener thread, connect, send_message    *)
(*   SpecSseFair       SpecSse with both threads scheduled fairly          *)
(*   SpecSseConnect    connect() against the listener, scheduled fairly    *)
(*   SpecSseConnected  send_message on an McpSseClient already connected   *)
(*   SpecHttp  one McpStreamableHttpClient                                 *)
(*   SpecPool  one McpClients pool                                         *)
(* Each specification keeps the variables of the others at their idle      *)
(* values.                                                                 *)
(***************************************************************************)
EXTENDS Integers, Sequences, FiniteSets, TLC

(***************************************************************************)
(* Bounds of the model.                                                    *)
(***************************************************************************)
\* largest value drawn for the maximum_iterations parameter
MaxIter == 2
\* size of the model output of one run: every chunk (or blocking result)
\* counts one, and every tool call in it one more
MaxOutput == 4
\* SSE events the server sends on one connection
MaxEvents == 3
\* operations (initialize, list_tools, call_tool) performed on one client
MaxOps == 2
\* operations performed on one Streamable HTTP client
MaxHttpOps == 3
\* servers of one mcp_servers_config
MaxServers == 2
\* operations (fetch_tools, execute_tool) performed on one pool
MaxPoolOps == 2
\* 'message' events the server sends to a client that is already connected
MaxMessages == 3

None == "None"

(***************************************************************************)
(* Input domains.                                                          *)
(***************************************************************************)
\* names a model may put in a tool call
ToolNames == {"a", "b"}
\* ids a model may give a tool call (nothing in the code makes them unique)
CallIds == {"id1", "id2"}
\* function.arguments strings: empty, valid JSON, invalid JSON
ArgStrings == {"", "{}", "{bad"}
\* local tool lists (fc_params.tools), by tool name
LocalToolLists == {<<"a">>}
\* catalogs the configured MCP servers may announce
McpCatalogs == {<<"a", "b">>}
\* server names of the configuration that carry a "command" key: the entry
\* named b has one, so that of the catalog a is run through the pool and b
\* as a command
CommandServerSets == {{"b"}}
\* usage records a chunk or a blocking result may carry
UsageRecords ==
    { [total_tokens |-> 1, total_price |-> 2, currency |-> "USD"],
      [total_tokens |-> 2, total_price |-> 1, currency |-> "EUR"] }
\* message contents: absent (or empty), a string, a list of contents
Contents ==
    { [list |-> FALSE, parts |-> <<>>],
      [list |-> FALSE, parts |-> <<"x">>],
      [list |-> TRUE,  parts |-> <<"y", "z">>] }

VARIABLES
    \* ---- FunctionCallingAgentStrategy._invoke ----
    pc,                  \* position in _invoke
    error,               \* the exception that ended the run ("" when none)
    max_iteration_steps, \* fc_params.maximum_iterations
    stream,              \* STREAM_TOOL_CALL in the model's features
    tools,               \* fc_params.tools, by name
    tool_instances,      \* names of the local tool registry
    mcp_tools,           \* mcp_clients.fetch_tools(), by name
    mcp_tool_instances,  \* names of the discovered MCP catalog
    command_servers,     \* names of servers_config entries with "command"
    mcp_clients,         \* "None" | "open" | "closed"
    prompt_messages_tools, \* sequence of tool schemas (by name)
    iteration_step,
    function_call_state,
    tool_calls,          \* tool calls extracted in the current round
    response,            \* text accumulated in the current round
    current_thoughts,    \* assistant and tool messages of the run
    call_index,          \* position of the for loop over tool_calls
    tool_responses,      \* tool_responses of the current round
    llm_usage,           \* llm_usage["usage"]
    current_llm_usage,
    emitted,             \* messages yielded to the caller
    \* ---- history of the run (observations, not program state) ----
    model_calls,         \* one record per session.model.llm.invoke
    usage_log,           \* usage records observed, in order
    close_count,         \* calls of McpClients.close()
    round_base,          \* Len(current_thoughts) when the round started
    output_left,         \* what is left of MaxOutput
    \* ---- McpSseClient ----
    sse,                 \* the fields of the McpSseClient object
    caller,              \* the thread that constructs and uses the client
    listener,            \* the thread running _listen_messages
    wire,                \* what went over the wire, and what is left to send
    \* ---- McpStreamableHttpClient ----
    http,                \* the client object and its requests
    \* ---- McpClients ----
    pool                 \* the pool object, its clients and its catalog

agentVars == << pc, error, max_iteration_steps, stream, tools, tool_instances,
                mcp_tools, mcp_tool_instances, command_servers, mcp_clients,
                prompt_messages_tools, iteration_step, function_call_state,
                tool_calls, response, current_thoughts, call_index,
                tool_responses, llm_usage, current_llm_usage, emitted,
                model_calls, usage_log, close_count, round_base,
                output_left >>

sseVars == << sse, caller, listener, wire >>

httpVars == << http >>

poolVars == << pool >>

vars == << agentVars, sseVars, httpVars, poolVars >>

(***************************************************************************)
(* Helpers.                                                                *)
(***************************************************************************)
RECURSIVE SeqsUpTo(_, _)
\* all sequences over S of length 0..n
SeqsUpTo(S, n) ==
    IF n = 0 THEN { <<>> }
    ELSE LET shorter == SeqsUpTo(S, n - 1)
         IN  shorter \cup { Append(s, x) : s \in { t \in shorter : Len(t) = n - 1 }, x \in S }

Min(a, b) == IF a < b THEN a ELSE b

SeqToSet(s) == { s[i] : i \in 1..Len(s) }

Event(type, round, data) == [type |-> type, round |-> round, data |-> data]

(***************************************************************************)
(* Messages of the conversation.  A string is a sequence of tokens; a      *)
(* multi-content message keeps its contents as a list.                     *)
(***************************************************************************)
Str(parts) == [list |-> FALSE, parts |-> parts]

Message(role, content, calls, id, name) ==
    [role |-> role, content |-> content, tool_calls |-> calls,
     tool_call_id |-> id, name |-> name]

\* history_prompt_messages after lines 70-72: system, (history), user
HistoryPromptMessages ==
    << Message("system", Str(<<"instruction">>), <<>>, "", ""),
       Message("user", [list |-> TRUE, parts |-> <<"text:q", "image", "file">>],
               <<>>, "", ""),
       Message("user", Str(<<"query">>), <<>>, "", "") >>

RECURSIVE JoinContents(_)
\* "\n".join(data | "[image]" | "[file]") of _clear_user_prompt_image_messages
JoinContents(parts) ==
    IF parts = <<>> THEN <<>>
    ELSE LET head == IF Head(parts) = "image" THEN "[image]"
                     ELSE IF Head(parts) = "file" THEN "[file]"
                     ELSE Head(parts)
         IN  IF Len(parts) = 1 THEN <<head>>
             ELSE <<head, "\n">> \o JoinContents(Tail(parts))

ClearUserPromptImageMessages(msgs) ==
    [ i \in 1..Len(msgs) |->
        IF msgs[i].role = "user" /\ msgs[i].content.list
        THEN [msgs[i] EXCEPT !.content = Str(JoinContents(msgs[i].content.parts))]
        ELSE msgs[i] ]

\* faulty variant: the messages of the run are put before the history
OrganizePromptMessages_ThoughtsFirst(thoughts, history) ==
    LET prompt == thoughts \o history
    IN  IF Len(thoughts) # 0 THEN ClearUserPromptImageMessages(prompt) ELSE prompt

\* lines 519-531
OrganizePromptMessages(thoughts, history) ==
    LET prompt == history \o thoughts
    IN  IF Len(thoughts) # 0 THEN ClearUserPromptImageMessages(prompt) ELSE prompt

(***************************************************************************)
(* Tool schemas offered to the model.                                      *)
(***************************************************************************)
\* AgentStrategy._init_prompt_tools: one schema per local tool, in order
InitPromptTools(toolList) ==
    [ i \in 1..Len(toolList) |-> [name |-> toolList[i], origin |-> "local"] ]

InitPromptMcpTools(mcpTools) ==
    [ i \in 1..Len(mcpTools) |-> [name |-> mcpTools[i], origin |-> "mcp"] ]

FullToolSchemas(toolList, mcpTools) ==
    InitPromptTools(toolList) \o InitPromptMcpTools(mcpTools)

\* faulty variant: the schemas are withheld on the last round even when it is the
\* only round
RoundPromptTools_AlsoSingleRound(step, maxSteps, current) ==
    IF step = maxSteps THEN <<>> ELSE current

\* lines 129-132: the schemas passed to the model in this round
RoundPromptTools(step, maxSteps, current) ==
    IF step = maxSteps /\ maxSteps > 1 THEN <<>> ELSE current

(***************************************************************************)
(* Usage accounting.  An optional usage record is <<>> (None) or <<u>>.    *)
(***************************************************************************)
NoUsage == <<>>

\* the usage field of a chunk or of a blocking result
OptionalUsages == {NoUsage} \cup { <<u>> : u \in UsageRecords }

\* AgentStrategy.increase_usage: the first record is kept, later ones are
\* added to it field by field; the currency stays that of the first record
IncreaseUsage(acc, usage) ==
    IF acc = NoUsage THEN << usage >>
    ELSE << [acc[1] EXCEPT !.total_tokens = @ + usage.total_tokens,
                           !.total_price  = @ + usage.total_price] >>

\* faulty variant: the summary reports the usage of the last round
ExecutionMetadata_LastUsage(usage) ==
    [ total_price  |-> IF current_llm_usage # NoUsage
                       THEN current_llm_usage[1].total_price ELSE 0,
      currency     |-> IF usage # NoUsage THEN usage[1].currency ELSE "",
      total_tokens |-> IF current_llm_usage # NoUsage
                       THEN current_llm_usage[1].total_tokens ELSE 0 ]

\* lines 415-423
ExecutionMetadata(usage) ==
    [ total_price  |-> IF usage # NoUsage THEN usage[1].total_price ELSE 0,
      currency     |-> IF usage # NoUsage THEN usage[1].currency ELSE "",
      total_tokens |-> IF usage # NoUsage THEN usage[1].total_tokens ELSE 0 ]

(***************************************************************************)
(* Tool calls.                                                             *)
(***************************************************************************)
\* tool calls as the model delivers them: calls that share an id, calls that
\* share a name, and one call with each of the argument strings
ToolCallDeltas ==
    { d \in [id : CallIds, name : ToolNames, arguments : {"{}"}] :
         d.id = "id1" \/ d.name = "b" }
    \cup [id : {"id1"}, name : {"a"}, arguments : ArgStrings]

EmptyContent == [list |-> FALSE, parts |-> <<>>]

\* what one chunk (or one blocking result) carries: tool calls, or a content,
\* or a usage record, or all three at once
ModelOutputs(callsLeft) ==
    { [deltas |-> d, content |-> EmptyContent, usage |-> NoUsage] :
         d \in SeqsUpTo(ToolCallDeltas, callsLeft) }
    \cup { [deltas |-> <<>>, content |-> c, usage |-> NoUsage] : c \in Contents }
    \cup { [deltas |-> <<>>, content |-> EmptyContent, usage |-> <<u>>] :
             u \in { q \in UsageRecords : q.currency = "USD" } }
    \cup { [deltas |-> d, content |-> Str(<<"x">>), usage |-> <<u>>] :
             d \in SeqsUpTo(ToolCallDeltas, Min(1, callsLeft)),
             u \in { q \in UsageRecords : q.currency = "EUR" } }

\* json.loads(arguments) succeeds ("" is not parsed at all)
ArgumentsParse(arguments) == arguments # "{bad"

\* extract_tool_calls / extract_blocking_tool_calls: (id, name, args)
ExtractToolCalls(deltas) ==
    [ i \in 1..Len(deltas) |-> [id |-> deltas[i].id, name |-> deltas[i].name] ]

ExtractRaises(deltas) ==
    \E i \in 1..Len(deltas) : ~ArgumentsParse(deltas[i].arguments)

\* faulty variant: a name found in no registry is invoked as a local tool
Dispatch_UnknownIsLocal(name, localNames, mcpNames, commandNames) ==
    IF name \in mcpNames
    THEN IF name \in commandNames THEN "command" ELSE "pool"
    ELSE "local"

\* lines 264-331: where a tool call goes
Dispatch(name, localNames, mcpNames, commandNames) ==
    IF name \notin localNames /\ name \notin mcpNames THEN "none"
    ELSE IF name \in mcpNames
         THEN IF name \in commandNames THEN "command" ELSE "pool"
         ELSE "local"

\* the result text of an invocation that returned
SuccessText(target) ==
    CASE target = "command" -> "command output"
      [] target = "pool"    -> "Tool execution result:"
      [] target = "local"   -> "tool result"

\* faulty variant: an exception of the pool's call_tool reaches the handler of
\* the tool loop instead of the one inside McpClients.execute_tool
ErrorTexts_PoolRaises(target) ==
    CASE target = "command" -> { "Failed to execute command:", "tool invoke error:" }
      [] target = "pool"    -> { "tool invoke error:" }
      [] target = "local"   -> { "tool invoke error:" }

\* the result texts of an invocation that raised: subprocess.run raising is
\* caught at lines 313-316, an exception of client.call_tool inside
\* McpClients.execute_tool (mcp_client.py 366-369), everything else by the
\* handler of the tool loop (lines 357-358)
ErrorTexts(target) ==
    CASE target = "command" -> { "Failed to execute command:", "tool invoke error:" }
      [] target = "pool"    -> { "Error executing tool:" }
      [] target = "local"   -> { "tool invoke error:" }

\* the texts a dispatch can produce as tool_response["tool_response"]
Outcomes(target) ==
    IF target = "none" THEN { "there is not a tool named" }
    ELSE { SuccessText(target) } \cup ErrorTexts(target)

\* the tool_response dict of lines 280-285 and 359-364; the text is a string
\* on every path, never None
ToolResponse(call, text) ==
    [tool_call_id |-> call.id, tool_call_name |-> call.name,
     tool_response |-> [none |-> FALSE, text |-> <<text, call.name>>]]

\* faulty variant: no tool message is appended for a call that resolved to no tool
ToolMessages_SkipsUnknown(resp) ==
    IF resp.tool_response.text[1] # "there is not a tool named"
    THEN << Message("tool", Str(resp.tool_response.text), <<>>,
                    resp.tool_call_id, resp.tool_call_name) >>
    ELSE <<>>

\* lines 379-386: the tool message appended for one tool_response
ToolMessages(resp) ==
    IF ~resp.tool_response.none
    THEN << Message("tool", Str(resp.tool_response.text), <<>>,
                    resp.tool_call_id, resp.tool_call_name) >>
    ELSE <<>>

\* lines 241-255
AssistantMessage(calls, text) ==
    IF calls # <<>>
    THEN Message("assistant", Str(<<>>), calls, "", "")
    ELSE Message("assistant", Str(text), <<>>, "", "")

\* text messages yielded for one streamed content (lines 181-190)
TextEvents(content, step) ==
    IF content.parts = <<>> THEN <<>>
    ELSE IF content.list
         THEN [ i \in 1..Len(content.parts) |-> Event("text", step, <<content.parts[i]>>) ]
         ELSE << Event("text", step, content.parts) >>

\* faulty variant: no text message is yielded for an empty content
BlockingTextEvents_SkipsEmpty(content, step) == TextEvents(content, step)

\* text messages yielded for a blocking result (lines 216-222)
BlockingTextEvents(content, step) ==
    IF content.parts = <<>> THEN << Event("text", step, <<>>) >>
    ELSE IF content.list
         THEN [ i \in 1..Len(content.parts) |-> Event("text", step, <<content.parts[i]>>) ]
         ELSE << Event("text", step, content.parts) >>

(***************************************************************************)
(* FunctionCallingAgentStrategy._invoke                                    *)
(***************************************************************************)
AgentInit ==
    /\ pc = "params"
    /\ error = ""
    /\ max_iteration_steps \in 0..MaxIter
    /\ stream \in BOOLEAN
    /\ tools \in LocalToolLists
    /\ tool_instances = {}
    /\ mcp_tools = <<>>
    /\ mcp_tool_instances = {}
    /\ command_servers = {}
    /\ mcp_clients = None
    /\ prompt_messages_tools = <<>>
    /\ iteration_step = 1
    /\ function_call_state = TRUE
    /\ tool_calls = <<>>
    /\ response = <<>>
    /\ current_thoughts = <<>>
    /\ call_index = 1
    /\ tool_responses = <<>>
    /\ llm_usage = NoUsage
    /\ current_llm_usage = NoUsage
    /\ emitted = <<>>
    /\ model_calls = <<>>
    /\ usage_log = <<>>
    /\ close_count = 0
    /\ round_base = 0
    /\ output_left = MaxOutput

\* lines 61-76: FunctionCallingParams(**parameters)
ValidateParams ==
    /\ pc = "params"
    /\ \E valid \in BOOLEAN :
          IF valid
          THEN /\ pc' = "config"
               /\ tool_instances' = SeqToSet(tools)
               /\ UNCHANGED error
          ELSE /\ pc' = "raised"
               /\ error' = "ValueError: Invalid parameters"
               /\ UNCHANGED tool_instances
    /\ UNCHANGED << max_iteration_steps, stream, tools, mcp_tools, mcp_tool_instances,
                    command_servers, mcp_clients, prompt_messages_tools,
                    iteration_step, function_call_state, tool_calls, response,
                    current_thoughts, call_index, tool_responses, llm_usage,
                    current_llm_usage, emitted, model_calls, usage_log,
                    close_count, round_base, output_left >>
    /\ UNCHANGED << sseVars, httpVars, poolVars >>

\* faulty variant: a configuration that does not parse is used all the same
AfterConfig_ParseErrorIgnored(present, parses) ==
    IF ~present THEN "loop" ELSE "pool"

\* lines 83-90: where _invoke goes on after reading mcp_servers_config
AfterConfig(present, parses) ==
    IF ~present THEN "loop"
    ELSE IF parses THEN "pool" ELSE "raised"

\* lines 79-89 (and 94-113 when there is no server configuration)
LoadConfig ==
    /\ pc = "config"
    /\ \/ \* servers_config_json is empty or None
          /\ pc' = AfterConfig(FALSE, TRUE)
          /\ prompt_messages_tools' = FullToolSchemas(tools, <<>>)
          /\ UNCHANGED << command_servers, error >>
       \/ \* json.loads raises JSONDecodeError
          /\ pc' = AfterConfig(TRUE, FALSE)
          /\ error' = "ValueError: mcp_servers_config must be a valid JSON string"
          /\ UNCHANGED << prompt_messages_tools, command_servers >>
       \/ \E commands \in CommandServerSets :
             /\ pc' = AfterConfig(TRUE, TRUE)
             /\ command_servers' = commands
             /\ UNCHANGED << prompt_messages_tools, error >>
    /\ UNCHANGED << max_iteration_steps, stream, tools, tool_instances,
                    mcp_tools, mcp_tool_instances, mcp_clients,
                    iteration_step, function_call_state, tool_calls, response,
                    current_thoughts, call_index, tool_responses, llm_usage,
                    current_llm_usage, emitted, model_calls, usage_log,
                    close_count, round_base, output_left >>
    /\ UNCHANGED << sseVars, httpVars, poolVars >>

\* line 90: McpClients(servers_config)
ConstructPool ==
    /\ pc = "pool"
    /\ \E ok \in BOOLEAN :
          IF ok THEN /\ pc' = "fetch"
                     /\ mcp_clients' = "open"
                     /\ UNCHANGED error
                ELSE /\ pc' = "raised"
                     /\ error' = "McpClients construction failed"
                     /\ UNCHANGED mcp_clients
    /\ UNCHANGED << max_iteration_steps, stream, tools, tool_instances,
                    mcp_tools, mcp_tool_instances, command_servers, prompt_messages_tools,
                    iteration_step, function_call_state, tool_calls, response,
                    current_thoughts, call_index, tool_responses, llm_usage,
                    current_llm_usage, emitted, model_calls, usage_log,
                    close_count, round_base, output_left >>
    /\ UNCHANGED << sseVars, httpVars, poolVars >>

\* lines 91-113: mcp_clients.fetch_tools() and the merged schema list
FetchTools ==
    /\ pc = "fetch"
    /\ \/ \E catalog \in McpCatalogs :
             /\ mcp_tools' = catalog
             /\ mcp_tool_instances' = SeqToSet(catalog)
             /\ prompt_messages_tools' = FullToolSchemas(tools, catalog)
             /\ pc' = "loop"
             /\ UNCHANGED error
       \/ /\ pc' = "raised"
          /\ error' = "RuntimeError: Error fetching tools"
          /\ UNCHANGED << mcp_tools, mcp_tool_instances, prompt_messages_tools >>
    /\ UNCHANGED << max_iteration_steps, stream, tools, tool_instances,
                    command_servers, mcp_clients,
                    iteration_step, function_call_state, tool_calls, response,
                    current_thoughts, call_index, tool_responses, llm_usage,
                    current_llm_usage, emitted, model_calls, usage_log,
                    close_count, round_base, output_left >>
    /\ UNCHANGED << sseVars, httpVars, poolVars >>

\* faulty variant: the loop goes on although the last round requested no tool
LoopCondition_IgnoresState(fcs, step, maxSteps) == step <= maxSteps

\* faulty variant: the cap on the number of rounds is not tested
LoopCondition_Unbounded(fcs, step, maxSteps) == fcs

\* faulty variant: the loop allows one round too many
LoopCondition_OffByOne(fcs, step, maxSteps) == fcs /\ step <= maxSteps + 1

\* line 115: while function_call_state and iteration_step <= max_iteration_steps
LoopCondition(fcs, step, maxSteps) == fcs /\ step <= maxSteps

LoopTest ==
    /\ pc = "loop"
    /\ pc' = IF LoopCondition(function_call_state, iteration_step, max_iteration_steps)
             THEN "round" ELSE "close"
    /\ UNCHANGED << error, max_iteration_steps, stream, tools, tool_instances,
                    mcp_tools, mcp_tool_instances, command_servers, mcp_clients,
                    prompt_messages_tools, iteration_step, function_call_state,
                    tool_calls, response, current_thoughts, call_index,
                    tool_responses, llm_usage, current_llm_usage, emitted,
                    model_calls, usage_log, close_count, round_base,
                    output_left >>
    /\ UNCHANGED << sseVars, httpVars, poolVars >>

\* lines 116-171: start a round and invoke the model
RoundStart ==
    /\ pc = "round"
    /\ function_call_state' = FALSE
    /\ emitted' = emitted \o << Event("round_start", iteration_step, <<>>),
                                Event("model_start", iteration_step, <<>>) >>
    /\ prompt_messages_tools' =
          RoundPromptTools(iteration_step, max_iteration_steps, prompt_messages_tools)
    /\ model_calls' = Append(model_calls,
          [round  |-> iteration_step,
           tools  |-> prompt_messages_tools',
           prompt |-> OrganizePromptMessages(current_thoughts, HistoryPromptMessages),
           read   |-> <<>>])
    /\ tool_calls' = <<>>
    /\ response' = <<>>
    /\ current_llm_usage' = NoUsage
    /\ round_base' = Len(current_thoughts)
    /\ pc' = IF stream THEN "stream" ELSE "blocking"
    /\ UNCHANGED << error, max_iteration_steps, stream, tools, tool_instances,
                    mcp_tools, mcp_tool_instances, command_servers, mcp_clients,
                    iteration_step, current_thoughts, call_index,
                    tool_responses, llm_usage, usage_log, close_count,
                    output_left >>
    /\ UNCHANGED << sseVars, httpVars, poolVars >>

\* the model invocation (or the iteration of its stream) raises
ModelRaises ==
    /\ pc \in {"stream", "blocking"}
    /\ pc' = "raised"
    /\ error' = "model invocation failed"
    /\ UNCHANGED << max_iteration_steps, stream, tools, tool_instances,
                    mcp_tools, mcp_tool_instances, command_servers, mcp_clients,
                    prompt_messages_tools, iteration_step, function_call_state,
                    tool_calls, response, current_thoughts, call_index,
                    tool_responses, llm_usage, current_llm_usage, emitted,
                    model_calls, usage_log, close_count, round_base,
                    output_left >>
    /\ UNCHANGED << sseVars, httpVars, poolVars >>

\* faulty variant: text is withheld after a tool call on the last round too
YieldTextDelta_NotAfterToolCall(fcs, step, maxSteps) == ~fcs

\* faulty variant: every text delta is yielded
YieldTextDelta_Always(fcs, step, maxSteps) == TRUE

\* lines 185 and 189: the text delta is yielded to the caller
YieldTextDelta(fcs, step, maxSteps) == ~fcs \/ step = maxSteps

\* the log of the contents read from the stream of the current model call:
\* the text of the chunk, and whether a tool call had been delivered by then
ReadLog(calls, content, seen) ==
    IF content.parts = <<>> THEN calls
    ELSE [calls EXCEPT ![Len(calls)].read =
             Append(@, [parts |-> content.parts, seen |-> seen])]

\* lines 174-194: one chunk of a streamed result
ConsumeChunk ==
    /\ pc = "stream"
    /\ output_left > 0
    /\ \E out \in ModelOutputs(output_left - 1) :
          LET deltas  == out.deltas
              content == out.content
              usage   == out.usage
          IN
          IF deltas # <<>> /\ ExtractRaises(deltas)
          THEN /\ pc' = "raised"
               /\ error' = "JSONDecodeError: tool call arguments"
               /\ function_call_state' = TRUE
               /\ UNCHANGED << tool_calls, response, emitted, llm_usage,
                               current_llm_usage, usage_log, output_left,
                               model_calls >>
          ELSE /\ pc' = "stream"
               /\ UNCHANGED error
               /\ function_call_state' = (function_call_state \/ deltas # <<>>)
               /\ tool_calls' = tool_calls \o ExtractToolCalls(deltas)
               /\ output_left' = output_left - 1 - Len(deltas)
               /\ response' = response \o content.parts
               /\ emitted' =
                     IF YieldTextDelta(function_call_state', iteration_step,
                                       max_iteration_steps)
                     THEN emitted \o TextEvents(content, iteration_step)
                     ELSE emitted
               /\ model_calls' = ReadLog(model_calls, content,
                                         tool_calls \o deltas # <<>>)
               /\ IF usage # NoUsage
                  THEN /\ llm_usage' = IncreaseUsage(llm_usage, usage[1])
                       /\ current_llm_usage' = usage
                       /\ usage_log' = Append(usage_log,
                             [round |-> iteration_step, usage |-> usage[1]])
                  ELSE UNCHANGED << llm_usage, current_llm_usage, usage_log >>
    /\ UNCHANGED << max_iteration_steps, stream, tools, tool_instances,
                    mcp_tools, mcp_tool_instances, command_servers, mcp_clients,
                    prompt_messages_tools, iteration_step, current_thoughts,
                    call_index, tool_responses, close_count,
                    round_base >>
    /\ UNCHANGED << sseVars, httpVars, poolVars >>

\* the stream is exhausted: lines 224-262
StreamEnd ==
    /\ pc = "stream"
    /\ pc' = "tools"
    /\ emitted' = Append(emitted, Event("model_finish", iteration_step, response))
    /\ current_thoughts' = Append(current_thoughts, AssistantMessage(tool_calls, response))
    /\ call_index' = 1
    /\ tool_responses' = <<>>
    /\ UNCHANGED << error, max_iteration_steps, stream, tools, tool_instances,
                    mcp_tools, mcp_tool_instances, command_servers, mcp_clients,
                    prompt_messages_tools, iteration_step, function_call_state,
                    tool_calls, response, llm_usage, current_llm_usage,
                    model_calls, usage_log, close_count, round_base,
                    output_left >>
    /\ UNCHANGED << sseVars, httpVars, poolVars >>

\* lines 196-262: a blocking result
BlockingResult ==
    /\ pc = "blocking"
    /\ output_left > 0
    /\ \E out \in ModelOutputs(output_left - 1) :
          LET deltas  == out.deltas
              content == out.content
              usage   == out.usage
          IN
          IF deltas # <<>> /\ ExtractRaises(deltas)
          THEN /\ pc' = "raised"
               /\ error' = "JSONDecodeError: tool call arguments"
               /\ function_call_state' = TRUE
               /\ UNCHANGED << tool_calls, response, emitted, llm_usage,
                               current_llm_usage, usage_log, output_left,
                               current_thoughts, call_index, tool_responses >>
          ELSE /\ pc' = "tools"
               /\ UNCHANGED error
               /\ function_call_state' = (deltas # <<>>)
               /\ tool_calls' = tool_calls \o ExtractToolCalls(deltas)
               /\ output_left' = output_left - 1 - Len(deltas)
               /\ IF usage # NoUsage
                  THEN /\ llm_usage' = IncreaseUsage(llm_usage, usage[1])
                       /\ current_llm_usage' = usage
                       /\ usage_log' = Append(usage_log,
                             [round |-> iteration_step, usage |-> usage[1]])
                  ELSE UNCHANGED << llm_usage, current_llm_usage, usage_log >>
               /\ response' = response \o content.parts
               /\ emitted' = emitted \o BlockingTextEvents(content, iteration_step)
                                     \o << Event("model_finish", iteration_step, response') >>
               /\ current_thoughts' =
                     Append(current_thoughts, AssistantMessage(tool_calls', response'))
               /\ call_index' = 1
               /\ tool_responses' = <<>>
    /\ UNCHANGED << max_iteration_steps, stream, tools, tool_instances,
                    mcp_tools, mcp_tool_instances, command_servers, mcp_clients,
                    prompt_messages_tools, iteration_step, model_calls,
                    close_count, round_base >>
    /\ UNCHANGED << sseVars, httpVars, poolVars >>

\* faulty variant: the calls are taken from the last to the first
NextToolCall_Reversed(calls, index) == calls[Len(calls) + 1 - index]

\* line 263: the for loop takes the calls in the order of the list
NextToolCall(calls, index) == calls[index]

\* lines 263-386: one iteration of the loop over tool_calls
InvokeTool ==
    /\ pc = "tools"
    /\ call_index <= Len(tool_calls)
    /\ LET call   == NextToolCall(tool_calls, call_index)
           target == Dispatch(call.name, tool_instances, mcp_tool_instances,
                              command_servers)
       IN  \E text \in Outcomes(target) :
              LET resp == ToolResponse(call, text)
              IN  /\ tool_responses' = Append(tool_responses, resp)
                  /\ current_thoughts' = current_thoughts \o ToolMessages(resp)
                  /\ emitted' = emitted \o
                        << Event("call_start", iteration_step, <<call.name>>),
                           Event("call_finish", iteration_step, resp.tool_response.text) >>
    /\ call_index' = call_index + 1
    /\ UNCHANGED << error, pc, max_iteration_steps, stream, tools, tool_instances,
                    mcp_tools, mcp_tool_instances, command_servers, mcp_clients,
                    prompt_messages_tools, iteration_step, function_call_state,
                    tool_calls, response, llm_usage, current_llm_usage,
                    model_calls, usage_log, close_count, round_base,
                    output_left >>
    /\ UNCHANGED << sseVars, httpVars, poolVars >>

\* lines 388-409: the round is finished
RoundEnd ==
    /\ pc = "tools"
    /\ call_index > Len(tool_calls)
    /\ emitted' = Append(emitted, Event("round_finish", iteration_step, response))
    /\ iteration_step' = iteration_step + 1
    /\ pc' = "loop"
    /\ UNCHANGED << error, max_iteration_steps, stream, tools, tool_instances,
                    mcp_tools, mcp_tool_instances, command_servers, mcp_clients,
                    prompt_messages_tools, function_call_state,
                    tool_calls, response, current_thoughts, call_index,
                    tool_responses, llm_usage, current_llm_usage,
                    model_calls, usage_log, close_count, round_base,
                    output_left >>
    /\ UNCHANGED << sseVars, httpVars, poolVars >>

\* faulty variant: the pool is left open when the loop ends
McpClientsClose_Skipped(clients) == clients

\* line 413: the pool after mcp_clients.close()
McpClientsClose(clients) == "closed"

\* lines 411-413: if mcp_clients: mcp_clients.close()
ClosePool ==
    /\ pc = "close"
    /\ IF mcp_clients # None
       THEN mcp_clients' = McpClientsClose(mcp_clients) /\ close_count' = close_count + 1
       ELSE UNCHANGED << mcp_clients, close_count >>
    /\ pc' = "summary"
    /\ UNCHANGED << error, max_iteration_steps, stream, tools, tool_instances,
                    mcp_tools, mcp_tool_instances, command_servers,
                    prompt_messages_tools, iteration_step, function_call_state,
                    tool_calls, response, current_thoughts, call_index,
                    tool_responses, llm_usage, current_llm_usage, emitted,
                    model_calls, usage_log, round_base,
                    output_left >>
    /\ UNCHANGED << sseVars, httpVars, poolVars >>

\* lines 415-423: the final execution_metadata message
Summary ==
    /\ pc = "summary"
    /\ emitted' = Append(emitted,
          [type |-> "summary", round |-> 0, data |-> <<>>,
           execution_metadata |-> ExecutionMetadata(llm_usage)])
    /\ pc' = "done"
    /\ UNCHANGED << error, max_iteration_steps, stream, tools, tool_instances,
                    mcp_tools, mcp_tool_instances, command_servers, mcp_clients,
                    prompt_messages_tools, iteration_step, function_call_state,
                    tool_calls, response, current_thoughts, call_index,
                    tool_responses, llm_usage, current_llm_usage,
                    model_calls, usage_log, close_count, round_base,
                    output_left >>
    /\ UNCHANGED << sseVars, httpVars, poolVars >>

(***************************************************************************)
(* McpSseClient: the caller's thread, the listener thread and the server.   *)
(***************************************************************************)
NoId == -1

NoUrl == [scheme |-> "", netloc |-> "", path |-> ""]

\* self.url
ConnectionUrl == [scheme |-> "https", netloc |-> "srv", path |-> "/sse"]

\* the data of an 'endpoint' event: a relative path, or an absolute URL with
\* the origin of the connection, another scheme, or another host
EndpointData ==
    { [absolute |-> FALSE, scheme |-> "", netloc |-> "", path |-> "/messages"],
      [absolute |-> TRUE, scheme |-> "https", netloc |-> "srv", path |-> "/messages"],
      [absolute |-> TRUE, scheme |-> "http", netloc |-> "srv", path |-> "/messages"],
      [absolute |-> TRUE, scheme |-> "https", netloc |-> "evil", path |-> "/messages"] }

\* urllib.parse.urljoin(self.url, sse.data)
UrlJoin(base, data) ==
    IF data.absolute
    THEN [scheme |-> data.scheme, netloc |-> data.netloc, path |-> data.path]
    ELSE [base EXCEPT !.path = data.path]

\* lines 84-87: the origin of the endpoint is the origin of the connection
OriginMatches(url, endpoint) ==
    ~(url.netloc # endpoint.netloc \/ url.scheme # endpoint.scheme)

NoMessage == [id |-> NoId, serial |-> 0]

NoData == [method |-> "", id |-> NoId]

\* ids a server message may carry: none, or the id of a request the client
\* sends at some time
MessageIds == {NoId} \cup 0..MaxOps

Methods == {"initialize", "tools/list", "tools/call"}

SseIdle ==
    /\ sse = [endpoint_url |-> NoUrl, request_id |-> 0, message_queue |-> <<>>,
              response_ready |-> FALSE, should_stop |-> FALSE,
              connected |-> FALSE, error_event |-> FALSE,
              thread_exception |-> None]
    /\ caller = [pc |-> "idle", data |-> NoData, message |-> NoMessage]
    /\ listener = [pc |-> "idle", exc |-> None]
    /\ wire = [events_left |-> 0, ops_left |-> 0, posts |-> <<>>,
               enqueued |-> <<>>, returned |-> <<>>, requeued |-> {},
               connect |-> "pending"]

\* McpSseClient.__init__ up to the call of connect() (lines 43-61)
SseInit ==
    /\ sse = [endpoint_url |-> NoUrl, request_id |-> 0, message_queue |-> <<>>,
              response_ready |-> FALSE, should_stop |-> FALSE,
              connected |-> FALSE, error_event |-> FALSE,
              thread_exception |-> None]
    /\ caller = [pc |-> "new", data |-> NoData, message |-> NoMessage]
    /\ listener = [pc |-> "idle", exc |-> None]
    /\ wire = [events_left |-> MaxEvents, ops_left |-> MaxOps, posts |-> <<>>,
               enqueued |-> <<>>, returned |-> <<>>, requeued |-> {},
               connect |-> "pending"]

\* a faulty is_alive(): a thread that has ended still counts as alive
ListenerAlive_EndedCounts == listener.pc # "idle"

\* threading.Thread.is_alive() of the listener thread
ListenerAlive == listener.pc \notin {"idle", "exited"}

\* ------------------------------------------------------------- connect()
\* lines 135-136: the listener thread is started
ConnectStart ==
    /\ caller.pc = "new"
    /\ caller' = [caller EXCEPT !.pc = "connect_check"]
    /\ listener' = [listener EXCEPT !.pc = "started"]
    /\ UNCHANGED << sse, wire, agentVars, httpVars, poolVars >>

\* the exception connect() raises when the error event is set (lines 139-143)
ConnectError(exception) ==
    IF exception = "HTTPStatusError" THEN "ConnectionError: connection failed"
    ELSE exception

\* lines 138-143
ConnectCheckError ==
    /\ caller.pc = "connect_check"
    /\ IF sse.error_event
       THEN /\ caller' = [caller EXCEPT !.pc = "failed"]
            /\ wire' = [wire EXCEPT !.connect = ConnectError(sse.thread_exception)]
       ELSE /\ caller' = [caller EXCEPT !.pc = "connect_wait"]
            /\ UNCHANGED wire
    /\ UNCHANGED << sse, listener, agentVars, httpVars, poolVars >>

\* lines 144-145: self._connected.wait(timeout=0.1)
ConnectWait ==
    /\ caller.pc = "connect_wait"
    /\ IF sse.connected
       THEN /\ caller' = [caller EXCEPT !.pc = "ready"]
            /\ wire' = [wire EXCEPT !.connect = "returned"]
       ELSE /\ caller' = [caller EXCEPT !.pc = "connect_alive"]
            /\ UNCHANGED wire
    /\ UNCHANGED << sse, listener, agentVars, httpVars, poolVars >>

\* lines 146-147
ConnectAlive ==
    /\ caller.pc = "connect_alive"
    /\ IF ~ListenerAlive
       THEN /\ caller' = [caller EXCEPT !.pc = "failed"]
            /\ wire' = [wire EXCEPT !.connect = "ConnectionError: listener thread died"]
       ELSE /\ caller' = [caller EXCEPT !.pc = "connect_check"]
            /\ UNCHANGED wire
    /\ UNCHANGED << sse, listener, agentVars, httpVars, poolVars >>

\* ------------------------------------------------- initialize, list_tools, call_tool
\* lines 158-172, 184-191, 196-206: the request is built with the current
\* _request_id and handed to send_message
BeginOperation ==
    /\ caller.pc = "ready"
    /\ wire.ops_left > 0
    /\ \E method \in Methods :
          caller' = [caller EXCEPT !.pc = "send_check",
                                   !.data = [method |-> method, id |-> sse.request_id]]
    /\ wire' = [wire EXCEPT !.ops_left = @ - 1]
    /\ UNCHANGED << sse, listener, agentVars, httpVars, poolVars >>

\* lines 104-108
SendCheck ==
    /\ caller.pc = "send_check"
    /\ caller' = [caller EXCEPT !.pc = IF sse.endpoint_url = NoUrl
                                       THEN "ready" ELSE "send_post",
                                !.data = IF sse.endpoint_url = NoUrl
                                         THEN NoData ELSE @]
    /\ UNCHANGED << sse, listener, wire, agentVars, httpVars, poolVars >>

\* lines 110-118 and 132: the POST, and raise_for_status on its response
SendPost ==
    /\ caller.pc = "send_post"
    /\ \E status_ok \in BOOLEAN :
          /\ wire' = [wire EXCEPT !.posts =
                Append(@, [method |-> caller.data.method, id |-> caller.data.id,
                           url |-> sse.endpoint_url, ok |-> status_ok])]
          /\ caller' =
                IF ~status_ok THEN [caller EXCEPT !.pc = "ready", !.data = NoData]
                ELSE IF caller.data.id # NoId THEN [caller EXCEPT !.pc = "wait"]
                ELSE [caller EXCEPT !.pc = "ready", !.data = NoData]
    /\ UNCHANGED << sse, listener, agentVars, httpVars, poolVars >>

\* line 121: self.response_ready.wait()
SendWait ==
    /\ caller.pc = "wait"
    /\ sse.response_ready
    /\ caller' = [caller EXCEPT !.pc = "clear"]
    /\ UNCHANGED << sse, listener, wire, agentVars, httpVars, poolVars >>

\* line 122: self.response_ready.clear()
SendClear ==
    /\ caller.pc = "clear"
    /\ sse' = [sse EXCEPT !.response_ready = FALSE]
    /\ caller' = [caller EXCEPT !.pc = "drain"]
    /\ UNCHANGED << listener, wire, agentVars, httpVars, poolVars >>

\* line 126
Matches(message, message_id) == message.id # NoId /\ message.id = message_id

\* what the caller does after send_message returned a response: initialize
\* goes on to send notifications/initialized (lines 173-180)
AfterResponse(data) ==
    IF data.method = "initialize"
    THEN [pc |-> "send_check",
          data |-> [method |-> "notifications/initialized", id |-> NoId],
          message |-> NoMessage]
    ELSE [pc |-> "ready", data |-> NoData, message |-> NoMessage]

\* lines 124-131: message_queue.get_nowait() and the comparison of the id
SendDrain ==
    /\ caller.pc = "drain"
    /\ IF sse.message_queue = <<>>
       THEN \* queue.Empty: back to waiting
            /\ caller' = [caller EXCEPT !.pc = "wait"]
            /\ UNCHANGED << sse, wire >>
       ELSE LET message == Head(sse.message_queue)
            IN  IF Matches(message, caller.data.id)
                THEN /\ sse' = [sse EXCEPT !.message_queue = Tail(@),
                                           !.request_id = @ + 1]
                     /\ wire' = [wire EXCEPT !.returned =
                           Append(@, [awaited |-> caller.data.id, message |-> message])]
                     /\ caller' = AfterResponse(caller.data)
                ELSE /\ sse' = [sse EXCEPT !.message_queue = Tail(@)]
                     /\ caller' = [caller EXCEPT !.pc = "requeue", !.message = message]
                     /\ UNCHANGED wire
    /\ UNCHANGED << listener, agentVars, httpVars, poolVars >>

\* line 129: self.message_queue.put(message)
PutBack(queue, message) == Append(queue, message)

SendRequeue ==
    /\ caller.pc = "requeue"
    /\ sse' = [sse EXCEPT !.message_queue = PutBack(@, caller.message)]
    /\ wire' = [wire EXCEPT !.requeued =
          @ \cup {[serial |-> caller.message.serial, awaited |-> caller.data.id]}]
    /\ caller' = [caller EXCEPT !.pc = "drain", !.message = NoMessage]
    /\ UNCHANGED << listener, agentVars, httpVars, poolVars >>

\* lines 150-156 and 228-231: close() returns, or an exception of
\* self.client.close() is caught and raised again as Exception('... MCP
\* Server connection close failed: ...')
CloseOutcome(failed) == IF failed THEN "close_raised" ELSE "closed"

\* lines 149-156: close()
SseClose ==
    /\ caller.pc = "ready"
    /\ sse' = [sse EXCEPT !.should_stop = TRUE]
    /\ \E failed \in BOOLEAN :
          caller' = [caller EXCEPT !.pc = CloseOutcome(failed)]
    /\ UNCHANGED << listener, wire, agentVars, httpVars, poolVars >>

\* ------------------------------------------------------- _listen_messages
\* lines 66-74: connect_sse and raise_for_status
ListenConnect ==
    /\ listener.pc = "started"
    /\ \E outcome \in {"ok", "HTTPStatusError", "ConnectError"} :
          listener' = IF outcome = "ok"
                      THEN [listener EXCEPT !.pc = "listening"]
                      ELSE [pc |-> "except", exc |-> outcome]
    /\ UNCHANGED << sse, caller, wire, agentVars, httpVars, poolVars >>

\* lines 75-81: an 'endpoint' event
ListenEndpoint ==
    /\ listener.pc = "listening"
    /\ wire.events_left > 0
    /\ wire' = [wire EXCEPT !.events_left = @ - 1]
    /\ IF sse.should_stop
       THEN /\ listener' = [listener EXCEPT !.pc = "exited"]
            /\ UNCHANGED sse
       ELSE \E data \in EndpointData :
               /\ sse' = [sse EXCEPT !.endpoint_url = UrlJoin(ConnectionUrl, data)]
               /\ listener' = [listener EXCEPT !.pc = "endpoint_set"]
    /\ UNCHANGED << caller, agentVars, httpVars, poolVars >>

\* line 83: self._connected.set()
ListenEndpointConnected ==
    /\ listener.pc = "endpoint_set"
    /\ sse' = [sse EXCEPT !.connected = TRUE]
    /\ listener' = [listener EXCEPT !.pc = "endpoint_check"]
    /\ UNCHANGED << caller, wire, agentVars, httpVars, poolVars >>

\* lines 84-90: the origin check
ListenEndpointCheck ==
    /\ listener.pc = "endpoint_check"
    /\ listener' = IF OriginMatches(ConnectionUrl, sse.endpoint_url)
                   THEN [listener EXCEPT !.pc = "listening"]
                   ELSE [pc |-> "except", exc |-> "ValueError"]
    /\ UNCHANGED << sse, caller, wire, agentVars, httpVars, poolVars >>

\* lines 91-94: a 'message' event: json.loads and message_queue.put
ListenMessage ==
    /\ listener.pc = "listening"
    /\ wire.events_left > 0
    /\ IF sse.should_stop
       THEN /\ listener' = [listener EXCEPT !.pc = "exited"]
            /\ wire' = [wire EXCEPT !.events_left = @ - 1]
            /\ UNCHANGED sse
       ELSE \/ \E id \in MessageIds :
                  LET message == [id |-> id, serial |-> Len(wire.enqueued) + 1]
                  IN  /\ sse' = [sse EXCEPT !.message_queue = Append(@, message)]
                      /\ wire' = [wire EXCEPT !.events_left = @ - 1,
                                              !.enqueued = Append(@, message)]
                      /\ listener' = [listener EXCEPT !.pc = "message_put"]
            \/ \* the data is not valid JSON
               /\ listener' = [pc |-> "except", exc |-> "JSONDecodeError"]
               /\ wire' = [wire EXCEPT !.events_left = @ - 1]
               /\ UNCHANGED sse
    /\ UNCHANGED << caller, agentVars, httpVars, poolVars >>

\* line 95: self.response_ready.set()
ListenMessageReady ==
    /\ listener.pc = "message_put"
    /\ sse' = [sse EXCEPT !.response_ready = TRUE]
    /\ listener' = [listener EXCEPT !.pc = "listening"]
    /\ UNCHANGED << caller, wire, agentVars, httpVars, poolVars >>

\* lines 96-97: an event with another tag is logged
ListenUnknownEvent ==
    /\ listener.pc = "listening"
    /\ wire.events_left > 0
    /\ wire' = [wire EXCEPT !.events_left = @ - 1]
    /\ listener' = IF sse.should_stop
                   THEN [listener EXCEPT !.pc = "exited"]
                   ELSE listener
    /\ UNCHANGED << sse, caller, agentVars, httpVars, poolVars >>

\* iter_sse raises (read timeout, broken stream) or ends (the server closed)
ListenStreamEnds ==
    /\ listener.pc = "listening"
    /\ \E outcome \in {"closed", "ReadError"} :
          listener' = IF outcome = "closed"
                      THEN [listener EXCEPT !.pc = "exited"]
                      ELSE [pc |-> "except", exc |-> outcome]
    /\ UNCHANGED << sse, caller, wire, agentVars, httpVars, poolVars >>

\* line 99
ListenExcept ==
    /\ listener.pc = "except"
    /\ sse' = [sse EXCEPT !.thread_exception = listener.exc]
    /\ listener' = [listener EXCEPT !.pc = "except_error"]
    /\ UNCHANGED << caller, wire, agentVars, httpVars, poolVars >>

\* line 100
ListenExceptError ==
    /\ listener.pc = "except_error"
    /\ sse' = [sse EXCEPT !.error_event = TRUE]
    /\ listener' = [listener EXCEPT !.pc = "except_connected"]
    /\ UNCHANGED << caller, wire, agentVars, httpVars, poolVars >>

\* line 101, after which the thread ends
ListenExceptConnected ==
    /\ listener.pc = "except_connected"
    /\ sse' = [sse EXCEPT !.connected = TRUE]
    /\ listener' = [listener EXCEPT !.pc = "exited"]
    /\ UNCHANGED << caller, wire, agentVars, httpVars, poolVars >>

(***************************************************************************)
(* McpStreamableHttpClient                                                 *)
(***************************************************************************)
\* the value of the mcp-session-id header of a response (None: no header)
SessionHeaders == {None, "s1", "s2"}

\* what a POST can come to: the request fails on the way (httpx raises), or a
\* response arrives whose body is a JSON-RPC result or a JSON-RPC error
PostOutcomes == {"raises", "result", "error"}

HttpIdle ==
    http = [pc |-> "idle", session_id |-> None, posts |-> <<>>,
            ops_left |-> 0, outcome |-> None]

\* McpStreamableHttpClient.__init__ (lines 217-225)
HttpInit ==
    http = [pc |-> "open", session_id |-> None, posts |-> <<>>,
            ops_left |-> MaxHttpOps, outcome |-> None]

\* faulty variant: the session header is never sent
HttpRequest_NoSession(method, id, session_id) ==
    [method |-> method, id |-> id, session |-> None]

\* send_message (lines 233-245): the request as it goes out, with the
\* Mcp-Session-Id header when a session id is known
HttpRequest(method, id, session_id) ==
    [method |-> method, id |-> id, session |-> session_id]

\* an entry of the log of POSTs: the request, whether it was an initialize
\* request whose response arrived, and the mcp-session-id header of that
\* response
Sent(request, handshake, header) ==
    [method |-> request.method, id |-> request.id, session |-> request.session,
     handshake |-> handshake, header |-> header]

\* initialize (lines 247-271)
HttpInitialize ==
    /\ http.pc = "open"
    /\ http.ops_left > 0
    /\ \E outcome \in PostOutcomes, header \in SessionHeaders :
          LET init_data == HttpRequest("initialize", 0, http.session_id)
              notify_data == HttpRequest("notifications/initialized", NoId, header)
          IN  CASE outcome = "raises" ->
                     /\ header = None
                     /\ http' = [http EXCEPT
                                    !.posts = Append(@, Sent(init_data, FALSE, None)),
                                    !.ops_left = @ - 1,
                                    !.outcome = "raised"]
                [] outcome = "error" ->
                     http' = [http EXCEPT
                                 !.posts = Append(@, Sent(init_data, TRUE, header)),
                                 !.session_id = header,
                                 !.ops_left = @ - 1,
                                 !.outcome = "raised"]
                [] outcome = "result" ->
                     http' = [http EXCEPT
                                 !.posts = @ \o << Sent(init_data, TRUE, header),
                                                   Sent(notify_data, FALSE, None) >>,
                                 !.session_id = header,
                                 !.ops_left = @ - 1,
                                 !.outcome = "returned"]
    /\ UNCHANGED << agentVars, sseVars, poolVars >>

\* list_tools (lines 273-284)
HttpListTools ==
    /\ http.pc = "open"
    /\ http.ops_left > 0
    /\ \E outcome \in PostOutcomes :
          http' = [http EXCEPT
                      !.posts = Append(@, Sent(HttpRequest("tools/list", 1, http.session_id),
                                               FALSE, None)),
                      !.ops_left = @ - 1,
                      !.outcome = IF outcome = "result" THEN "returned" ELSE "raised"]
    /\ UNCHANGED << agentVars, sseVars, poolVars >>

\* call_tool (lines 286-300)
HttpCallTool ==
    /\ http.pc = "open"
    /\ http.ops_left > 0
    /\ \E outcome \in PostOutcomes :
          http' = [http EXCEPT
                      !.posts = Append(@, Sent(HttpRequest("tools/call", 2, http.session_id),
                                               FALSE, None)),
                      !.ops_left = @ - 1,
                      !.outcome = IF outcome = "result" THEN "returned" ELSE "raised"]
    /\ UNCHANGED << agentVars, sseVars, poolVars >>

\* close (lines 227-231)
HttpClose ==
    /\ http.pc = "open"
    /\ \E failed \in BOOLEAN :
          http' = [http EXCEPT !.pc = CloseOutcome(failed)]
    /\ UNCHANGED << agentVars, sseVars, poolVars >>

(***************************************************************************)
(* McpClients: the pool of protocol clients. The servers of a               *)
(* configuration are numbered 1..n in the order of the configuration,       *)
(* which is the iteration order of the dicts _clients and _tools.           *)
(***************************************************************************)
\* names of the tools a server may list
PoolToolNames == {"a", "b"}

\* names execute_tool is called with ("c" is listed by no server); pool.name
\* holds the name of the call in progress or last finished
RequestedNames == PoolToolNames \cup {"c"}

\* the tools a list_tools call returns
ServerCatalogs == { <<>>, <<"a">>, <<"a", "b">> }

PoolIdle ==
    pool = [pc |-> "idle", servers |-> 0, clients |-> <<>>, initialized |-> 0,
            tools |-> <<>>, i |-> 0, name |-> "", after |-> "",
            calls |-> <<>>, executes |-> 0, closes |-> <<>>,
            requests |-> <<>>, outcome |-> None, ops_left |-> 0]

\* McpClients(servers_config) is entered with a configuration of n servers
PoolInit ==
    \E n \in 0..MaxServers :
       pool = [pc |-> "init_client", servers |-> n, clients |-> <<>>,
               initialized |-> 0, tools |-> <<>>, i |-> 1, name |-> "",
               after |-> "", calls |-> <<>>, executes |-> 0, closes |-> <<>>,
               requests |-> <<>>, outcome |-> None, ops_left |-> MaxPoolOps]

\* lines 307-310: init_client for the next server; the constructor of the
\* client connects (McpSseClient) and may raise
PoolInitClient ==
    /\ pool.pc = "init_client"
    /\ IF pool.i > pool.servers
       THEN pool' = [pool EXCEPT !.pc = "initialize", !.i = 1]
       ELSE \E connected \in BOOLEAN :
               pool' = IF connected
                       THEN [pool EXCEPT !.clients = Append(@, pool.i), !.i = @ + 1]
                       ELSE [pool EXCEPT !.pc = "failed",
                                         !.outcome = "raised: connect"]
    /\ UNCHANGED << agentVars, sseVars, httpVars >>

\* a request sent on a client of the pool; error says that the response
\* carried an "error" field (or that the request raised otherwise)
Request(client, method, failed) ==
    [client |-> client, method |-> method, error |-> failed]

\* the log of the requests of the pool, in the order in which they were
\* sent; a request of a method already logged for the client is not logged
\* again, so that the log holds the first request of each kind
LogRequest(log, request) ==
    IF \E k \in 1..Len(log) : /\ log[k].client = request.client
                              /\ log[k].method = request.method
    THEN log
    ELSE Append(log, request)

\* faulty variant: a client whose initialize() raised is passed over
InitializeResult_SkipsFailed(p, ok) ==
    IF ok THEN [p EXCEPT !.initialized = @ + 1, !.i = @ + 1,
                         !.requests = Append(@, Request(p.clients[p.i], "initialize", FALSE))]
    ELSE [p EXCEPT !.i = @ + 1,
                   !.requests = Append(@, Request(p.clients[p.i], "initialize", TRUE))]

\* faulty variant: the "error" field of the initialize response is not looked at
InitializeResult_ErrorIgnored(p, ok) ==
    [p EXCEPT !.initialized = @ + 1, !.i = @ + 1,
              !.requests = Append(@, Request(p.clients[p.i], "initialize", ~ok))]

\* line 312: client.initialize() returns, or its exception (lines 173-174
\* and 264-265: "error" in the response) leaves __init__
InitializeResult(p, ok) ==
    IF ok THEN [p EXCEPT !.initialized = @ + 1, !.i = @ + 1,
                         !.requests = Append(@, Request(p.clients[p.i], "initialize", FALSE))]
    ELSE [p EXCEPT !.pc = "failed", !.outcome = "raised: initialize",
                   !.requests = Append(@, Request(p.clients[p.i], "initialize", TRUE))]

\* lines 311-313: client.initialize() for the next client, then _tools = {}
PoolInitialize ==
    /\ pool.pc = "initialize"
    /\ IF pool.i > Len(pool.clients)
       THEN pool' = [pool EXCEPT !.pc = "ready", !.tools = <<>>, !.i = 0,
                                 !.outcome = "constructed"]
       ELSE \E ok \in BOOLEAN : pool' = InitializeResult(pool, ok)
    /\ UNCHANGED << agentVars, sseVars, httpVars >>

\* self._tools[server_name] = tools: the entry of a server already in the
\* dict is replaced in place, a new one is added at the end
RECURSIVE SetTools(_, _, _)
SetTools(entries, server, catalog) ==
    IF entries = <<>> THEN << [server |-> server, tools |-> catalog] >>
    ELSE IF Head(entries).server = server
         THEN << [server |-> server, tools |-> catalog] >> \o Tail(entries)
         ELSE << Head(entries) >> \o SetTools(Tail(entries), server, catalog)

\* fetch_tools is called on the pool (line 335)
PoolFetchTools ==
    /\ pool.pc = "ready"
    /\ pool.ops_left > 0
    /\ pool' = [pool EXCEPT !.pc = "fetch", !.i = 1, !.after = "ready",
                            !.name = "", !.ops_left = @ - 1, !.outcome = None]
    /\ UNCHANGED << agentVars, sseVars, httpVars >>

\* lines 338-344: one iteration of the loop of fetch_tools, or its return
PoolFetchStep ==
    /\ pool.pc = "fetch"
    /\ IF pool.i > Len(pool.clients)
       THEN pool' = [pool EXCEPT !.pc = pool.after, !.i = 0,
                                 !.outcome = IF pool.after = "ready"
                                             THEN "returned: tools" ELSE @]
       ELSE \/ \E catalog \in ServerCatalogs :
                  pool' = [pool EXCEPT
                              !.tools = SetTools(@, pool.clients[pool.i], catalog),
                              !.requests = LogRequest(@, Request(pool.clients[pool.i],
                                                                 "tools/list", FALSE)),
                              !.i = @ + 1]
            \/ \* list_tools raised
               pool' = [pool EXCEPT !.pc = "ready", !.i = 0, !.name = "",
                                    !.requests = LogRequest(@, Request(pool.clients[pool.i],
                                                                       "tools/list", TRUE)),
                                    !.outcome = "raised: RuntimeError"]
    /\ UNCHANGED << agentVars, sseVars, httpVars >>

\* faulty variant: the first server that lists the name owns it
RECURSIVE ToolClients_FirstWins(_, _)
ToolClients_FirstWins(entries, name) ==
    IF entries = <<>> THEN 0
    ELSE IF name \in SeqToSet(Head(entries).tools) THEN Head(entries).server
         ELSE ToolClients_FirstWins(Tail(entries), name)

\* lines 349-354: tool_clients.get(tool_name), tool_clients being filled in
\* the order of _tools, a later entry replacing an earlier one; 0 stands for
\* None
RECURSIVE ToolClients(_, _)
ToolClients(entries, name) ==
    IF entries = <<>> THEN 0
    ELSE LET later == ToolClients(Tail(entries), name)
         IN  IF later # 0 THEN later
             ELSE IF name \in SeqToSet(Head(entries).tools) THEN Head(entries).server
                  ELSE 0

\* execute_tool is called (lines 346-348); without a catalog it fetches first
PoolExecuteTool ==
    /\ pool.pc = "ready"
    /\ pool.ops_left > 0
    /\ \E name \in RequestedNames :
          pool' = IF pool.tools = <<>>
                  THEN [pool EXCEPT !.pc = "fetch", !.i = 1, !.after = "execute",
                                    !.name = name, !.executes = @ + 1,
                                    !.ops_left = @ - 1, !.outcome = None]
                  ELSE [pool EXCEPT !.pc = "execute", !.name = name,
                                    !.executes = @ + 1,
                                    !.ops_left = @ - 1, !.outcome = None]
    /\ UNCHANGED << agentVars, sseVars, httpVars >>

\* the string execute_tool returns when client.call_tool returned (line 365)
\* and when the try block raised (lines 366-369)
ExecuteResult(raised) ==
    IF raised THEN "Error executing tool:" ELSE "Tool execution result:"

\* lines 349-369: the lookup of the client and the call
PoolExecuteCall ==
    /\ pool.pc = "execute"
    /\ LET client == ToolClients(pool.tools, pool.name)
       IN  IF client = 0
           THEN \* None.call_tool raises AttributeError inside the try block
                pool' = [pool EXCEPT !.pc = "ready",
                                     !.outcome = ExecuteResult(TRUE)]
           ELSE \E raised \in BOOLEAN :
                   pool' = [pool EXCEPT
                               !.pc = "ready",
                               !.calls = Append(@, [client |-> client,
                                                    name |-> pool.name,
                                                    tools |-> pool.tools,
                                                    execute |-> pool.executes]),
                               !.requests = LogRequest(@, Request(client, "tools/call",
                                                                  raised)),
                               !.outcome = ExecuteResult(raised)]
    /\ UNCHANGED << agentVars, sseVars, httpVars >>

\* faulty variant: an exception of client.close() leaves the loop
CloseClientResult_Propagates(p, raised) ==
    IF raised
    THEN [p EXCEPT !.closes = Append(@, [client |-> p.clients[p.i], raised |-> TRUE]),
                   !.pc = "closed", !.i = 0, !.outcome = "raised"]
    ELSE [p EXCEPT !.closes = Append(@, [client |-> p.clients[p.i], raised |-> FALSE]),
                   !.i = @ + 1]

\* lines 373-376: client.close() was called; its exception is logged
CloseClientResult(p, raised) ==
    [p EXCEPT !.closes = Append(@, [client |-> p.clients[p.i], raised |-> raised]),
              !.i = @ + 1]

\* close is called on the pool (line 371)
PoolClose ==
    /\ pool.pc = "ready"
    /\ pool' = [pool EXCEPT !.pc = "closing", !.i = 1, !.outcome = None]
    /\ UNCHANGED << agentVars, sseVars, httpVars >>

\* lines 372-376: one iteration of the loop of close, or its return
PoolCloseStep ==
    /\ pool.pc = "closing"
    /\ IF pool.i > Len(pool.clients)
       THEN pool' = [pool EXCEPT !.pc = "closed", !.i = 0, !.outcome = "returned"]
       ELSE \E raised \in BOOLEAN : pool' = CloseClientResult(pool, raised)
    /\ UNCHANGED << agentVars, sseVars, httpVars >>

(***************************************************************************)
(* The specifications.                                                     *)
(***************************************************************************)
\* every variable of _invoke at its value before the run
AgentIdle ==
    /\ AgentInit
    /\ max_iteration_steps = 0
    /\ stream = FALSE

Init == AgentInit /\ SseIdle /\ HttpIdle /\ PoolIdle

Next ==
    \/ ValidateParams
    \/ LoadConfig
    \/ ConstructPool
    \/ FetchTools
    \/ LoopTest
    \/ RoundStart
    \/ ModelRaises
    \/ ConsumeChunk
    \/ StreamEnd
    \/ BlockingResult
    \/ InvokeTool
    \/ RoundEnd
    \/ ClosePool
    \/ Summary

Spec == Init /\ [][Next]_vars

InitSse == AgentIdle /\ SseInit /\ HttpIdle /\ PoolIdle

NextSse ==
    \/ ConnectStart
    \/ ConnectCheckError
    \/ ConnectWait
    \/ ConnectAlive
    \/ BeginOperation
    \/ SendCheck
    \/ SendPost
    \/ SendWait
    \/ SendClear
    \/ SendDrain
    \/ SendRequeue
    \/ SseClose
    \/ ListenConnect
    \/ ListenEndpoint
    \/ ListenEndpointConnected
    \/ ListenEndpointCheck
    \/ ListenMessage
    \/ ListenMessageReady
    \/ ListenUnknownEvent
    \/ ListenStreamEnds
    \/ ListenExcept
    \/ ListenExceptError
    \/ ListenExceptConnected

SpecSse == InitSse /\ [][NextSse]_vars

\* the steps of the thread that uses the client
SseCaller ==
    \/ ConnectStart
    \/ ConnectCheckError
    \/ ConnectWait
    \/ ConnectAlive
    \/ BeginOperation
    \/ SendCheck
    \/ SendPost
    \/ SendWait
    \/ SendClear
    \/ SendDrain
    \/ SendRequeue
    \/ SseClose

\* the steps of the listener thread
SseListener ==
    \/ ListenConnect
    \/ ListenEndpoint
    \/ ListenEndpointConnected
    \/ ListenEndpointCheck
    \/ ListenMessage
    \/ ListenMessageReady
    \/ ListenUnknownEvent
    \/ ListenStreamEnds
    \/ ListenExcept
    \/ ListenExceptError
    \/ ListenExceptConnected

\* both threads are scheduled: a thread that can take a step takes one
SpecSseFair == SpecSse /\ WF_vars(SseCaller) /\ WF_vars(SseListener)

\* the steps of the constructor's thread inside connect()
ConnectCaller ==
    \/ ConnectStart
    \/ ConnectCheckError
    \/ ConnectWait
    \/ ConnectAlive

\* connect() against the listener thread, up to its return or its raise
NextSseConnect ==
    \/ ConnectCaller
    \/ SseListener

\* both threads are scheduled; a blocked read of the stream ends at the
\* latest with the read timeout (line 71)
SpecSseConnect ==
    InitSse /\ [][NextSseConnect]_vars /\ WF_vars(ConnectCaller) /\ WF_vars(SseListener)

\* a client whose connect() returned: the endpoint event was received, the
\* listener reads the stream, and the server sends 'message' events only
SseConnected ==
    /\ sse = [endpoint_url |-> UrlJoin(ConnectionUrl, [absolute |-> FALSE, scheme |-> "",
                                   netloc |-> "", path |-> "/messages"]),
              request_id |-> 0, message_queue |-> <<>>,
              response_ready |-> FALSE, should_stop |-> FALSE,
              connected |-> TRUE, error_event |-> FALSE,
              thread_exception |-> None]
    /\ caller = [pc |-> "ready", data |-> NoData, message |-> NoMessage]
    /\ listener = [pc |-> "listening", exc |-> None]
    /\ wire = [events_left |-> MaxMessages, ops_left |-> MaxOps, posts |-> <<>>,
               enqueued |-> <<>>, returned |-> <<>>, requeued |-> {},
               connect |-> "returned"]

InitSseConnected == AgentIdle /\ SseConnected /\ HttpIdle /\ PoolIdle

\* send_message on the connected client, against the listener
NextSseConnected ==
    \/ BeginOperation
    \/ SendCheck
    \/ SendPost
    \/ SendWait
    \/ SendClear
    \/ SendDrain
    \/ SendRequeue
    \/ ListenMessage
    \/ ListenMessageReady
    \/ ListenStreamEnds
    \/ ListenExcept
    \/ ListenExceptError
    \/ ListenExceptConnected

SpecSseConnected == InitSseConnected /\ [][NextSseConnected]_vars

InitHttp == AgentIdle /\ SseIdle /\ HttpInit /\ PoolIdle

NextHttp ==
    \/ HttpInitialize
    \/ HttpListTools
    \/ HttpCallTool
    \/ HttpClose

SpecHttp == InitHttp /\ [][NextHttp]_vars

InitPool == AgentIdle /\ SseIdle /\ HttpIdle /\ PoolInit

NextPool ==
    \/ PoolInitClient
    \/ PoolInitialize
    \/ PoolFetchTools
    \/ PoolFetchStep
    \/ PoolExecuteTool
    \/ PoolExecuteCall
    \/ PoolClose
    \/ PoolCloseStep

SpecPool == InitPool /\ [][NextPool]_vars

(***************************************************************************)
(* Observations on a run of _invoke.                                       *)
(***************************************************************************)
IsToolMessage(m) == m.role = "tool"

IsAssistantMessage(m) == m.role = "assistant"

IsRoundStart(e) == e.type = "round_start"

IsSummary(e) == e.type = "summary"

\* the messages appended to the conversation since the round started
RoundMessages == SubSeq(current_thoughts, round_base + 1, Len(current_thoughts))

\* the tool-result messages among them
RoundToolMessages == SelectSeq(RoundMessages, IsToolMessage)

\* the assistant messages of the run, one per round whose result was consumed
AssistantMessages == SelectSeq(current_thoughts, IsAssistantMessage)

\* the ROUND logs emitted so far, by round number
RoundLogs ==
    LET starts == SelectSeq(emitted, IsRoundStart)
    IN  [ i \in 1..Len(starts) |-> starts[i].round ]

Summaries == SelectSeq(emitted, IsSummary)

\* the loop over tool_calls of the current round has run to its end
DispatchDone ==
    \/ pc = "tools" /\ call_index > Len(tool_calls)
    \/ pc \in {"loop", "close", "summary", "done"} /\ model_calls # <<>>

RECURSIVE SumTokens(_)
SumTokens(log) ==
    IF log = <<>> THEN 0 ELSE Head(log).usage.total_tokens + SumTokens(Tail(log))

RECURSIVE SumPrice(_)
SumPrice(log) ==
    IF log = <<>> THEN 0 ELSE Head(log).usage.total_price + SumPrice(Tail(log))

(***************************************************************************)
(* C1                                                                      *)
(***************************************************************************)
\* C1, as stated: once the tool dispatch of a round has finished, the round
\* has appended as many tool-result messages as tool calls were extracted,
\* and every extracted id is the tool_call_id of exactly one of them.
C1_EveryIdExactlyOnce ==
    DispatchDone =>
       /\ Len(RoundToolMessages) = Len(tool_calls)
       /\ \A i \in 1..Len(tool_calls) :
             Cardinality({ j \in 1..Len(RoundToolMessages) :
                              RoundToolMessages[j].tool_call_id = tool_calls[i].id }) = 1

\* C1, amended: once the tool dispatch of a round has finished, the round has
\* appended as many tool-result messages as tool calls were extracted, the
\* i-th message carries the id and name of the i-th call, and so an id borne
\* by k extracted calls is the tool_call_id of exactly k messages (of exactly
\* one when the ids of the round are pairwise distinct); calls that resolve
\* to no tool and calls whose invocation raised are included.
C1_OneResultPerCall ==
    DispatchDone =>
       LET results == RoundToolMessages
       IN  /\ Len(results) = Len(tool_calls)
           /\ \A i \in 1..Len(tool_calls) :
                 /\ results[i].tool_call_id = tool_calls[i].id
                 /\ results[i].name = tool_calls[i].name
                 /\ Cardinality({ j \in 1..Len(results) :
                                     results[j].tool_call_id = tool_calls[i].id })
                    = Cardinality({ j \in 1..Len(tool_calls) : tool_calls[j].id = tool_calls[i].id })

\* a finished round with two calls of distinct ids, one resolving to no tool
\* and one whose invocation raised
C1_Witness ==
    /\ DispatchDone
    /\ Len(tool_calls) = 2
    /\ tool_calls[1].id # tool_calls[2].id
    /\ \E i, j \in 1..2 :
          /\ tool_responses[i].tool_response.text[1] = "there is not a tool named"
          /\ tool_responses[j].tool_response.text[1] = "tool invoke error:"

(***************************************************************************)
(* C2                                                                      *)
(***************************************************************************)
\* C2: if the model result of round N holds no tool call, no round N+1 is
\* started: round N stays the last ROUND log and the last model invocation,
\* and the run goes on to the final summary without raising.
C2_NoRoundAfterEmptyRound ==
    LET assistant == AssistantMessages
    IN
    \A n \in 1..Len(assistant) :
       assistant[n].tool_calls = <<>> =>
          /\ n <= max_iteration_steps
          /\ Len(model_calls) = n
          /\ RoundLogs = [ i \in 1..n |-> i ]
          /\ pc \in {"tools", "loop", "close", "summary", "done"}
          /\ pc = "tools" => call_index > Len(tool_calls)

\* a run that could have had a second round ended after a first round
\* without tool calls
C2_Witness ==
    /\ pc = "done"
    /\ max_iteration_steps >= 2
    /\ Len(model_calls) = 1
    /\ Len(AssistantMessages) = 1
    /\ AssistantMessages[1].tool_calls = <<>>
    /\ Len(Summaries) = 1

(***************************************************************************)
(* C3                                                                      *)
(***************************************************************************)
TextOf(m) == m.content.parts

\* an error was absorbed into the conversation
AbsorbedErrors ==
    { i \in 1..Len(current_thoughts) :
         /\ current_thoughts[i].role = "tool"
         /\ TextOf(current_thoughts[i])[1] \in
               { "there is not a tool named", "tool invoke error:",
                 "Error executing tool:", "Failed to execute command:" } }

\* C3, as stated: whatever the model outputs and the tool outcomes are, the
\* run ends by emitting the final summary (no model output ends it
\* otherwise).
C3_EveryOutputReachesSummary ==
    pc = "raised" => error # "JSONDecodeError: tool call arguments"

\* C3, amended: for every sequence of model outputs and tool outcomes the
\* rounds started are numbered 1, 2, ... consecutively, there are at most
\* maximum_iterations of them, each with one model invocation; a run that
\* has started its loop ends either by emitting the final summary or by an
\* exception of a model invocation or of json.loads on the arguments of a
\* tool call; tool-resolution errors and exceptions of tool invocations are
\* absorbed and neither add a round nor end the run.
C3_BoundedRounds ==
    /\ LET logs == RoundLogs
       IN  /\ logs = [ i \in 1..Len(logs) |-> i ]
           /\ Len(logs) <= max_iteration_steps
           /\ Len(model_calls) = Len(logs)
           /\ iteration_step \in Len(logs)..(Len(logs) + 1)
    /\ \A k \in 1..Len(model_calls) : model_calls[k].round = k
    /\ (pc = "raised" /\ model_calls # <<>>) =>
          error \in { "model invocation failed",
                      "JSONDecodeError: tool call arguments" }
    /\ pc = "done" =>
          /\ Len(Summaries) = 1
          /\ emitted[Len(emitted)].type = "summary"
    /\ (pc = "tools" /\ call_index <= Len(tool_calls)) => ENABLED InvokeTool
    /\ (pc = "tools" /\ call_index > Len(tool_calls)) => ENABLED RoundEnd
    /\ pc \in {"loop", "round", "close", "summary"} => ENABLED Next

\* the run ended with its summary after maximum_iterations rounds, having
\* absorbed a tool-resolution error and a raised invocation
C3_Witness ==
    /\ pc = "done"
    /\ max_iteration_steps = 2
    /\ Len(RoundLogs) = 2
    /\ \E i, j \in AbsorbedErrors :
          /\ TextOf(current_thoughts[i])[1] = "there is not a tool named"
          /\ TextOf(current_thoughts[j])[1] = "tool invoke error:"

(***************************************************************************)
(* C4                                                                      *)
(***************************************************************************)
\* C4: the schema list passed to the model in round N is empty when
\* N = maximum_iterations and maximum_iterations > 1, and in every other
\* round it is the local tool schemas followed by the MCP tool schemas.
C4_ToolsWithheldOnLastRound ==
    \A k \in 1..Len(model_calls) :
       LET N == model_calls[k].round
           offered == model_calls[k].tools
       IN  IF N = max_iteration_steps /\ max_iteration_steps > 1
           THEN offered = <<>>
           ELSE /\ Len(offered) = Len(tools) + Len(mcp_tools)
                /\ \A i \in 1..Len(tools) :
                      offered[i] = [name |-> tools[i], origin |-> "local"]
                /\ \A i \in 1..Len(mcp_tools) :
                      offered[Len(tools) + i] = [name |-> mcp_tools[i], origin |-> "mcp"]

\* two rounds of a run with maximum_iterations = 2: the first was offered the
\* merged schemas of a local and an MCP tool, the second none
C4_Witness ==
    /\ max_iteration_steps = 2
    /\ Len(model_calls) = 2
    /\ Len(model_calls[1].tools) = 3
    /\ model_calls[2].tools = <<>>

(***************************************************************************)
(* C5                                                                      *)
(***************************************************************************)
\* the endpoint the client holds was announced with another origin than the
\* connection's
EndpointMismatched ==
    sse.endpoint_url # NoUrl /\ ~OriginMatches(ConnectionUrl, sse.endpoint_url)

\* C5: when the 'endpoint' event announced a URL whose scheme or host differs
\* from the connection URL's, connect() has not returned normally, and no
\* request has ever been POSTed to an endpoint of another origin.
C5_MismatchedEndpointFailsClosed ==
    /\ EndpointMismatched => wire.connect # "returned"
    /\ \A i \in 1..Len(wire.posts) : OriginMatches(ConnectionUrl, wire.posts[i].url)

(***************************************************************************)
(* C6                                                                      *)
(***************************************************************************)
\* the message was taken from the queue and put back while send_message
\* awaited another id
RequeuedEarlier(message, awaited) ==
    \E r \in wire.requeued : r.serial = message.serial /\ r.awaited # awaited

\* send_message is blocked in response_ready.wait() and only a further server
\* message can wake it: the signal is clear and the listener is between events
BlockedOnReadySignal ==
    /\ caller.pc = "wait"
    /\ ~sse.response_ready
    /\ listener.pc \in {"listening", "exited"}

\* C6: a message that was put back on the queue while another id was awaited
\* is returned by the later send_message that awaits its id: that call is
\* never left blocked on the ready signal while the message sits in the queue.
C6_RequeuedMessageIsReturned ==
    ~(/\ BlockedOnReadySignal
      /\ \E i \in 1..Len(sse.message_queue) :
            /\ Matches(sse.message_queue[i], caller.data.id)
            /\ RequeuedEarlier(sse.message_queue[i], caller.data.id))

(***************************************************************************)
(* C7                                                                      *)
(***************************************************************************)
\* the ids of the id-bearing requests of a log of POSTs, in the order sent
RECURSIVE RequestIds(_)
RequestIds(posts) ==
    IF posts = <<>> THEN <<>>
    ELSE IF Head(posts).id = NoId THEN RequestIds(Tail(posts))
    ELSE << Head(posts).id >> \o RequestIds(Tail(posts))

StrictlyIncreasing(ids) ==
    \A i, j \in 1..Len(ids) : i < j => ids[i] < ids[j]

\* C7: for each protocol client, the ids of the id-bearing requests it has
\* sent are strictly increasing, so that no id is used by two requests.
C7_RequestIdsNeverReused ==
    /\ StrictlyIncreasing(RequestIds(http.posts))
    /\ StrictlyIncreasing(RequestIds(wire.posts))

(***************************************************************************)
(* C8                                                                      *)
(***************************************************************************)
\* C8: when a run that constructed an McpClients pool has ended, normally or
\* by an exception, McpClients.close() has been called exactly once.
C8_PoolClosedExactlyOnce ==
    (pc \in {"done", "raised"} /\ mcp_clients # None) => close_count = 1

(***************************************************************************)
(* C9                                                                      *)
(***************************************************************************)
\* C9: the total_tokens and total_price of the final execution_metadata are
\* the sums over every usage record observed in the run, and without any
\* usage record they are 0 and the currency is the empty string.
C9_TotalsAreSums ==
    pc = "done" =>
       LET meta == emitted[Len(emitted)].execution_metadata
       IN  /\ emitted[Len(emitted)].type = "summary"
           /\ meta.total_tokens = SumTokens(usage_log)
           /\ meta.total_price = SumPrice(usage_log)
           /\ usage_log = <<>> =>
                 /\ meta.total_tokens = 0
                 /\ meta.total_price = 0
                 /\ meta.currency = ""
           /\ usage_log # <<>> => meta.currency = usage_log[1].usage.currency

\* a finished run that observed usage records in two different rounds
C9_Witness ==
    /\ pc = "done"
    /\ Len(usage_log) >= 2
    /\ \E i, j \in 1..Len(usage_log) :
          /\ usage_log[i].round # usage_log[j].round
          /\ usage_log[i].usage # usage_log[j].usage

(***************************************************************************)
(* C10                                                                     *)
(***************************************************************************)
\* C10: a tool call whose name is in neither registry yields the tool result
\* 'there is not a tool named <name>', appended as a tool message with the
\* call's id; the other calls of the round are processed, the round
\* finishes and the round counter advances.
C10_UnknownToolIsAbsorbed ==
    /\ pc = "tools" =>
          /\ call_index = Len(tool_responses) + 1
          /\ Len(RoundToolMessages) = Len(tool_responses)
          /\ call_index <= Len(tool_calls) => ENABLED InvokeTool
          /\ call_index > Len(tool_calls) => ENABLED RoundEnd
    /\ (pc = "loop" /\ model_calls # <<>>) =>
          /\ Len(tool_responses) = Len(tool_calls)
          /\ iteration_step = model_calls[Len(model_calls)].round + 1
    /\ (pc \in {"tools", "loop"} /\ model_calls # <<>>) =>
          \A i \in 1..Len(tool_responses) :
             LET call == tool_calls[i]
             IN  (call.name \notin tool_instances /\ call.name \notin mcp_tool_instances)
                 => /\ tool_responses[i].tool_response.text
                         = <<"there is not a tool named", call.name>>
                    /\ RoundToolMessages[i]
                         = Message("tool",
                                   Str(<<"there is not a tool named", call.name>>),
                                   <<>>, call.id, call.name)

\* a round whose first call named an unknown tool: the second call was still
\* invoked, the round finished and the counter advanced
C10_Witness ==
    /\ pc = "loop"
    /\ iteration_step = 2
    /\ Len(tool_calls) = 2
    /\ Len(tool_responses) = 2
    /\ tool_responses[1].tool_response.text[1] = "there is not a tool named"
    /\ tool_responses[2].tool_response.text[1] = "tool result"

(***************************************************************************)
(* C11                                                                     *)
(***************************************************************************)
\* where the i-th tool call of the current round was dispatched
TargetOf(i) ==
    Dispatch(tool_calls[i].name, tool_instances, mcp_tool_instances, command_servers)

\* the invocation of the i-th tool call of the current round raised
InvocationRaised(i) ==
    /\ TargetOf(i) # "none"
    /\ tool_responses[i].tool_response.text[1] # SuccessText(TargetOf(i))

\* C11, as stated: whenever the invocation of a resolved tool raised, the
\* result text of that call is 'tool invoke error: <message>'.
C11_RaisedInvocationIsToolInvokeError ==
    (pc \in {"tools", "loop"} /\ model_calls # <<>>) =>
       \A i \in 1..Len(tool_responses) :
          InvocationRaised(i) =>
             tool_responses[i].tool_response.text[1] = "tool invoke error:"

\* C11, amended: an invocation that raised does not abort the round. Its
\* call gets a tool message with the call's id whose text is 'tool invoke
\* error:' for a local tool, 'Error executing tool:' for a tool run through
\* the Client Pool, and one of 'Failed to execute command:' and 'tool invoke
\* error:' for a command server; the next call of the round can be executed,
\* the round can finish, and after a round with tool calls the loop
\* condition holds whenever the round counter is within the bound.
C11_InvocationErrorsAbsorbed ==
    /\ (pc \in {"tools", "loop"} /\ model_calls # <<>>) =>
          \A i \in 1..Len(tool_responses) :
             LET text == tool_responses[i].tool_response.text[1]
                 call == tool_calls[i]
             IN  InvocationRaised(i) =>
                    /\ TargetOf(i) = "local" => text = "tool invoke error:"
                    /\ TargetOf(i) = "pool" => text = "Error executing tool:"
                    /\ TargetOf(i) = "command" =>
                          text \in {"Failed to execute command:", "tool invoke error:"}
                    /\ RoundToolMessages[i] =
                          Message("tool", Str(<<text, call.name>>), <<>>,
                                  call.id, call.name)
    /\ pc = "tools" =>
          /\ error = ""
          /\ call_index <= Len(tool_calls) => ENABLED InvokeTool
          /\ call_index > Len(tool_calls) => ENABLED RoundEnd
    /\ (pc = "loop" /\ model_calls # <<>> /\ tool_calls # <<>>
          /\ iteration_step <= max_iteration_steps) =>
          /\ LoopCondition(function_call_state, iteration_step, max_iteration_steps)
          /\ ENABLED LoopTest

\* round 2 was started after a round in which a pool invocation raised and
\* the call after it was still executed
C11_Witness ==
    /\ Len(RoundLogs) = 2
    /\ round_base >= 3
    /\ \E i \in 1..round_base - 1 :
          /\ current_thoughts[i].role = "tool"
          /\ TextOf(current_thoughts[i])[1] = "Error executing tool:"
          /\ current_thoughts[i + 1].role = "tool"
          /\ TextOf(current_thoughts[i + 1])[1] = "Tool execution result:"

(***************************************************************************)
(* C12                                                                     *)
(***************************************************************************)
\* the servers whose discovered catalog lists the name
Owners(entries, name) ==
    { entries[k].server : k \in { j \in 1..Len(entries) :
                                     name \in SeqToSet(entries[j].tools) } }

\* C12: every execute_tool that reached a client sent its tools/call to one
\* client only; that client's discovered catalog lists the name, and no
\* server later in the configuration order lists it too. The discovered
\* catalogs are kept in configuration order.
C12_LastDiscoveredOwnerIsUsed ==
    /\ \A k \in 1..Len(pool.calls) :
          LET c == pool.calls[k]
          IN  /\ c.client \in Owners(c.tools, c.name)
              /\ \A o \in Owners(c.tools, c.name) : o <= c.client
              /\ \A l \in 1..Len(pool.calls) : pool.calls[l].execute = c.execute => l = k
    /\ Len(pool.calls) <= pool.executes
    /\ \A x, y \in 1..Len(pool.tools) :
          x < y => pool.tools[x].server < pool.tools[y].server

\* a call of a name that the catalogs of two servers list went to the second
C12_Witness ==
    \E k \in 1..Len(pool.calls) :
       /\ Owners(pool.calls[k].tools, pool.calls[k].name) = {1, 2}
       /\ pool.calls[k].client = 2

(***************************************************************************)
(* C13                                                                     *)
(***************************************************************************)
\* the constructor returned a pool object
PoolExists == pool.pc \in {"ready", "fetch", "execute", "closing", "closed"}

\* C13: a pool object exists only when every configured server has its
\* client, created in configuration order, and initialize() returned on
\* every one of them; a construction in which a connect or an initialize
\* failed has raised and left no pool.
C13_NoPartialPool ==
    /\ PoolExists =>
          /\ pool.clients = [ k \in 1..pool.servers |-> k ]
          /\ pool.initialized = pool.servers
    /\ pool.pc = "failed" =>
          /\ pool.outcome \in {"raised: connect", "raised: initialize"}
          /\ Len(pool.clients) < pool.servers \/ pool.initialized < pool.servers
          /\ ~ENABLED NextPool
    /\ (Len(pool.clients) < pool.servers \/ pool.initialized < pool.servers) =>
          pool.pc \in {"init_client", "initialize", "failed"}

\* with two servers configured, initialize() of the second client raised
\* after the first had been initialized: the construction raised
C13_Witness ==
    /\ pool.pc = "failed"
    /\ pool.servers = 2
    /\ Len(pool.clients) = 2
    /\ pool.initialized = 1

(***************************************************************************)
(* C14                                                                     *)
(***************************************************************************)
\* C14: connect() has returned normally only if an endpoint event was
\* received (endpoint_url, once set, is never reset); a listener that
\* recorded an error before any endpoint makes connect() raise.
C14_ConnectReturnsOnlyAfterEndpoint ==
    wire.connect = "returned" => sse.endpoint_url # NoUrl

(***************************************************************************)
(* C15                                                                     *)
(***************************************************************************)
\* the listener thread ended by a stream error or by a message that is not
\* JSON, after an endpoint was announced
ListenerDiedConnected ==
    /\ listener.pc = "exited"
    /\ listener.exc \in {"ReadError", "JSONDecodeError"}
    /\ sse.error_event
    /\ sse.endpoint_url # NoUrl

\* C15: once the listener thread has terminated by an error after the
\* connection was established, no send_message is left blocked in
\* response_ready.wait() with the signal clear: only the listener sets that
\* signal, so such a call never returns and never raises.
C15_ListenerDeathSurfacesToWaiter ==
    ~(ListenerDiedConnected /\ caller.pc = "wait" /\ ~sse.response_ready)

(***************************************************************************)
(* C16                                                                     *)
(***************************************************************************)
\* C16: close() of a protocol client never raises to its caller, neither
\* McpSseClient.close nor McpStreamableHttpClient.close.
C16_CloseNeverRaises ==
    /\ caller.pc # "close_raised"
    /\ http.pc # "close_raised"

(***************************************************************************)
(* C17                                                                     *)
(***************************************************************************)
\* C17: McpClients.close() calls close() once on every owned client, in
\* order, whether or not an earlier close() raised, and returns normally.
C17_PoolCloseReachesEveryClient ==
    /\ pool.pc = "closing" =>
          /\ Len(pool.closes) = pool.i - 1
          /\ \A k \in 1..Len(pool.closes) : pool.closes[k].client = pool.clients[k]
    /\ pool.pc = "closed" =>
          /\ Len(pool.closes) = Len(pool.clients)
          /\ \A k \in 1..Len(pool.closes) : pool.closes[k].client = pool.clients[k]
          /\ pool.outcome = "returned"

\* the pool was closed: close() of the first client raised and close() of
\* the second was still called
C17_Witness ==
    /\ pool.pc = "closed"
    /\ Len(pool.closes) = 2
    /\ pool.closes[1].raised
    /\ pool.closes[2].client = 2

(***************************************************************************)
(* C18                                                                     *)
(***************************************************************************)
\* execute_tool has returned for a name that no client owns
UnownedNameExecuted ==
    /\ pool.pc = "ready"
    /\ pool.name # ""
    /\ pool.outcome \notin {None, "raised: RuntimeError"}
    /\ ToolClients(pool.tools, pool.name) = 0

\* C18: the outcome of execute_tool for a name that no client owns is not
\* the outcome of a failed execution of an existing tool.
C18_UnownedNameReportsNotFound ==
    UnownedNameExecuted => pool.outcome # ExecuteResult(TRUE)

(***************************************************************************)
(* C19                                                                     *)
(***************************************************************************)
\* C19: a tool call whose name is in the local tool registry is invoked as
\* a local tool (its result is one that session.tool.invoke produces), also
\* when the discovered MCP catalog lists the same name.
C19_LocalRegistryFirst ==
    (pc \in {"tools", "loop"} /\ model_calls # <<>>) =>
       \A i \in 1..Len(tool_responses) :
          tool_calls[i].name \in tool_instances =>
             tool_responses[i].tool_response.text[1]
                \in { SuccessText("local") } \cup ErrorTexts("local")

(***************************************************************************)
(* C20                                                                     *)
(***************************************************************************)
\* the session identifier after a log of POSTs: the header of the response
\* to the last initialize request that was answered, None before any
RECURSIVE SessionAfter(_)
SessionAfter(posts) ==
    IF posts = <<>> THEN None
    ELSE IF posts[Len(posts)].handshake THEN posts[Len(posts)].header
         ELSE SessionAfter(SubSeq(posts, 1, Len(posts) - 1))

C21_OneFinalSummaryAfterClose ==
    /\ pc = "done" =>
          /\ Len(Summaries) = 1
          /\ IsSummary(emitted[Len(emitted)])
    /\ Summaries # <<>> =>
          /\ pc = "done"
          /\ mcp_clients # None => mcp_clients = "closed" /\ close_count = 1
    /\ pc = "summary" /\ mcp_clients # None => mcp_clients = "closed"

\* a run with a pool and a round of tool calls ended with its summary
C21_Witness ==
    /\ pc = "done"
    /\ mcp_clients = "closed"
    /\ Len(model_calls) = 2
    /\ Len(emitted) > 1
    /\ IsSummary(emitted[Len(emitted)])

(***************************************************************************)
(* C22                                                                     *)
(***************************************************************************)
\* the two configuration errors of _invoke
ConfigurationErrors ==
    { "ValueError: Invalid parameters",
      "ValueError: mcp_servers_config must be a valid JSON string" }

\* C22: when the strategy parameters fail validation or mcp_servers_config
\* is not valid JSON, _invoke has raised before any round: no ROUND log (and
\* no other message) was emitted, the model was never invoked and no MCP
\* client was created.
C22_ConfigurationErrorsFailFast ==
    error \in ConfigurationErrors =>
       /\ pc = "raised"
       /\ RoundLogs = <<>>
       /\ emitted = <<>>
       /\ model_calls = <<>>
       /\ mcp_clients = None
       /\ close_count = 0

\* the parameters were valid and the server configuration did not parse
C22_Witness ==
    /\ pc = "raised"
    /\ error = "ValueError: mcp_servers_config must be a valid JSON string"
    /\ tool_instances # {}
    /\ max_iteration_steps >= 1

(***************************************************************************)
(* C30                                                                     *)
(***************************************************************************)
\* a drain pass of send_message over a queue that holds messages, none of
\* which carries the awaited id
DrainingNonMatching ==
    /\ caller.pc = "drain"
    /\ sse.message_queue # <<>>
    /\ \A i \in 1..Len(sse.message_queue) :
          ~Matches(sse.message_queue[i], caller.data.id)

\* the drain pass is over: the caller waits on the ready signal again, or
\* send_message returned a message that arrived during the pass
DrainPassOver == caller.pc \notin {"drain", "requeue"}

\* C30: a drain pass over a queue that holds only messages not matching the
\* awaited id terminates: the caller leaves the loop over the queue and
\* goes back to waiting on the ready signal.
C30_DrainPassTerminates == DrainingNonMatching ~> DrainPassOver

(***************************************************************************)
(* C23                                                                     *)
(***************************************************************************)
\* send_message is between its POST and its return
InSendMessage == caller.pc \in {"wait", "clear", "drain", "requeue"}

\* send_message awaits an id and a message with that id is in the queue
AwaitedMessageQueued ==
    /\ InSendMessage
    /\ \E i \in 1..Len(sse.message_queue) :
          Matches(sse.message_queue[i], caller.data.id)

\* C23: under every interleaving of the listener and the caller, once a
\* message with the awaited id is in the queue, send_message eventually
\* returns; the caller does not block for ever while its response sits in
\* the queue, also when the message was enqueued during an earlier call.
C23_QueuedResponseEventuallyReturned == AwaitedMessageQueued ~> ~InSendMessage

(***************************************************************************)
(* C24                                                                     *)
(***************************************************************************)
\* the serials of the messages in the queue, head first; the listener
\* numbers the messages in the order in which it enqueues them
QueueSerials ==
    [ i \in 1..Len(sse.message_queue) |-> sse.message_queue[i].serial ]

\* C24: once send_message has returned, the messages that remain in the
\* queue are in the relative order in which the listener enqueued them.
C24_RequeueKeepsOrder ==
    (~InSendMessage /\ wire.returned # <<>>) => StrictlyIncreasing(QueueSerials)

(***************************************************************************)
(* C25                                                                     *)
(***************************************************************************)
IsRoundText(e) == e.type = "text" /\ e.round = iteration_step

\* the text messages yielded in the current round
RoundTextEvents == SelectSeq(emitted, IsRoundText)

RECURSIVE Flatten(_)
\* the concatenation of a sequence of token sequences
Flatten(seqs) ==
    IF seqs = <<>> THEN <<>> ELSE Head(seqs) \o Flatten(Tail(seqs))

\* the text yielded to the caller in the current round
RoundText == Flatten([ i \in 1..Len(RoundTextEvents) |-> RoundTextEvents[i].data ])

\* the contents read from the stream of the current round
RoundRead == model_calls[Len(model_calls)].read

\* a streamed round whose result is being consumed or has been consumed
InStreamedRound == stream /\ pc \in {"stream", "tools"}

\* the text of the deltas read, in order; those read while no tool call had
\* been seen or on the last round when `all` is false
TextRead(all) ==
    Flatten([ i \in 1..Len(RoundRead) |->
                 IF all \/ ~RoundRead[i].seen \/ iteration_step = max_iteration_steps
                 THEN RoundRead[i].parts ELSE <<>> ])

\* C25: in a streamed round N, at every moment, the text yielded to the
\* caller is the text of the deltas read so far that were read while no
\* tool call had been seen in the round or with N = maximum_iterations, and
\* the accumulated response is the text of all the deltas read so far.
C25_DeltaYieldedIffNoToolCallOrLastRound ==
    InStreamedRound =>
       /\ RoundText = TextRead(FALSE)
       /\ response = TextRead(TRUE)

\* a round that is not the last one read text, then a tool call, then text
\* again: the first text was yielded, the second was not
C25_Witness ==
    /\ InStreamedRound
    /\ iteration_step < max_iteration_steps
    /\ Len(RoundRead) = 2
    /\ ~RoundRead[1].seen
    /\ RoundRead[2].seen
    /\ RoundText = RoundRead[1].parts
    /\ response = RoundRead[1].parts \o RoundRead[2].parts

(***************************************************************************)
(* C26                                                                     *)
(***************************************************************************)
\* the number of deltas read before the first tool call of the round
ReadBeforeToolCall == Cardinality({ i \in 1..Len(RoundRead) : ~RoundRead[i].seen })

\* C26, as stated: in a streamed round that is not the last one and in
\* which the model requests a tool call, no text of the round is visible to
\* the user: the text that precedes the tool call is not emitted.
C26_TextBeforeToolCallSuppressed ==
    (InStreamedRound /\ iteration_step < max_iteration_steps /\ tool_calls # <<>>) =>
       RoundText = <<>>

\* C26, amended: in a streamed round that is not the last one, the text
\* emitted is exactly the text read before the first tool call of the
\* round: text read with or after the first tool call is withheld, text
\* that precedes it has already been emitted and stays visible; in the last
\* round every text delta is emitted.
C26_TextAfterToolCallSuppressed ==
    InStreamedRound =>
       IF iteration_step = max_iteration_steps
       THEN RoundText = response
       ELSE /\ RoundText = Flatten([ i \in 1..ReadBeforeToolCall |-> RoundRead[i].parts ])
            /\ \A i \in 1..Len(RoundRead) : RoundRead[i].seen <=> i > ReadBeforeToolCall

\* a round that is not the last one: text was emitted, then the model
\* requested a tool call, and the text read after it was withheld
C26_Witness ==
    /\ InStreamedRound
    /\ iteration_step < max_iteration_steps
    /\ tool_calls # <<>>
    /\ RoundText # <<>>
    /\ RoundText # response

(***************************************************************************)
(* C27                                                                     *)
(***************************************************************************)
IsRoundCallEvent(e) ==
    e.type \in {"call_start", "call_finish"} /\ e.round = iteration_step

\* the CALL logs of the current round, start and finish, as yielded
RoundCallEvents == SelectSeq(emitted, IsRoundCallEvent)

\* the part of the prompt of the latest model invocation that follows the
\* history messages
LastPromptThoughts ==
    LET prompt == model_calls[Len(model_calls)].prompt
    IN  SubSeq(prompt, Len(HistoryPromptMessages) + 1, Len(prompt))

\* C27: at every moment of the tool loop of a round, the calls executed so
\* far are the first calls of the round in the order of extraction, each
\* finished before the next one started; the conversation holds, after the
\* assistant message of the round, one tool-result message per executed
\* call in that order; and the next model invocation is given all of them.
C27_ToolCallsSequentialInOrder ==
    /\ pc = "tools" =>
          LET executed == call_index - 1
          IN  /\ executed <= Len(tool_calls)
              /\ Len(RoundMessages) = 1 + executed
              /\ IsAssistantMessage(RoundMessages[1])
              /\ Len(RoundCallEvents) = 2 * executed
              /\ \A i \in 1..executed :
                    /\ IsToolMessage(RoundMessages[1 + i])
                    /\ RoundMessages[1 + i].tool_call_id = tool_calls[i].id
                    /\ RoundMessages[1 + i].name = tool_calls[i].name
                    /\ RoundCallEvents[2 * i - 1].type = "call_start"
                    /\ RoundCallEvents[2 * i - 1].data = << tool_calls[i].name >>
                    /\ RoundCallEvents[2 * i].type = "call_finish"
                    /\ RoundCallEvents[2 * i].data = RoundMessages[1 + i].content.parts
    /\ pc \in {"stream", "blocking"} => LastPromptThoughts = current_thoughts

\* the second round was invoked with the results of two calls of the first
\* round, a call of a followed by a call of b
C27_Witness ==
    /\ pc \in {"stream", "blocking"}
    /\ iteration_step = 2
    /\ Len(current_thoughts) = 3
    /\ current_thoughts[1].tool_calls = << [id |-> "id1", name |-> "a"],
                                           [id |-> "id2", name |-> "b"] >>
    /\ current_thoughts[2].name = "a"
    /\ current_thoughts[3].name = "b"
    /\ LastPromptThoughts = current_thoughts

(***************************************************************************)
(* C28                                                                     *)
(***************************************************************************)
\* the positions of the tools/list and tools/call requests of the pool
ToolRequests ==
    { k \in 1..Len(pool.requests) :
         pool.requests[k].method \in {"tools/list", "tools/call"} }

\* the positions of the initialize requests whose response carried an error
FailedInitializes ==
    { k \in 1..Len(pool.requests) :
         pool.requests[k].method = "initialize" /\ pool.requests[k].error }

\* C28: every tools/list and tools/call request of a pool (the log holds the
\* first of each method on each client) is sent on a
\* client on which initialize() had returned before; when the initialize
\* response of a client carries an "error" field, the construction of the
\* pool has raised and no tools/list or tools/call request is sent at all.
C28_InitializeBeforeToolRequests ==
    /\ \A k \in ToolRequests :
          \E j \in 1..(k - 1) :
             pool.requests[j] = Request(pool.requests[k].client, "initialize", FALSE)
    /\ FailedInitializes # {} =>
          /\ pool.pc = "failed"
          /\ ToolRequests = {}
          /\ ~ENABLED NextPool

\* a pool of two clients listed the tools of both and called a tool on the
\* second, both having been initialized before
C28_Witness ==
    /\ Len(pool.requests) = 5
    /\ pool.requests[1] = Request(1, "initialize", FALSE)
    /\ pool.requests[2] = Request(2, "initialize", FALSE)
    /\ pool.requests[3].method = "tools/list"
    /\ pool.requests[4].method = "tools/list"
    /\ pool.requests[5] = Request(2, "tools/call", FALSE)

(***************************************************************************)
(* C29                                                                     *)
(***************************************************************************)
\* message q is message p, or p with its list of contents joined to a string
SameUpToFlattening(p, q) ==
    IF p.role = "user" /\ p.content.list
    THEN q = [p EXCEPT !.content = Str(JoinContents(p.content.parts))]
    ELSE q = p

\* C29: the prompt of round N is, message by message and up to the
\* flattening of multi-content user messages, a prefix of the prompt of
\* round N+1; what round N added after it is one assistant message followed
\* by one tool-result message per tool call of that message; and the
\* messages of the run given to the latest model invocation are a prefix of
\* the messages of the run as they are now.
C29_ConversationOnlyGrows ==
    /\ \A n \in 1..(Len(model_calls) - 1) :
          LET p == model_calls[n].prompt
              q == model_calls[n + 1].prompt
          IN  /\ Len(q) > Len(p)
              /\ \A i \in 1..Len(p) : SameUpToFlattening(p[i], q[i])
              /\ IsAssistantMessage(q[Len(p) + 1])
              /\ Len(q) = Len(p) + 1 + Len(q[Len(p) + 1].tool_calls)
              /\ \A k \in (Len(p) + 2)..Len(q) :
                    /\ IsToolMessage(q[k])
                    /\ q[k].tool_call_id = q[Len(p) + 1].tool_calls[k - Len(p) - 1].id
    /\ model_calls # <<>> =>
          /\ Len(LastPromptThoughts) <= Len(current_thoughts)
          /\ LastPromptThoughts = SubSeq(current_thoughts, 1, Len(LastPromptThoughts))

\* the prompt of the second round: that of the first with its multi-content
\* user message flattened, then the assistant message and one tool result
C29_Witness ==
    /\ Len(model_calls) = 2
    /\ \E i \in 1..Len(model_calls[1].prompt) :
          /\ model_calls[1].prompt[i].content.list
          /\ ~model_calls[2].prompt[i].content.list
    /\ Len(model_calls[2].prompt) = Len(model_calls[1].prompt) + 2
    /\ IsToolMessage(model_calls[2].prompt[Len(model_calls[2].prompt)])

\* connect() is still inside its loop (lines 137-147)
InConnect == caller.pc \in {"connect_check", "connect_wait", "connect_alive"}

\* the listener announced an endpoint (line 83), recorded an error
\* (line 100) or its thread ended
ListenerSettled ==
    sse.connected \/ sse.error_event \/ listener.pc = "exited"

\* C31: once the listener thread has announced an endpoint, recorded an
\* error or ended, connect() does not keep blocking: it returns or raises.
C31_ConnectTerminates == ListenerSettled ~> ~InConnect

\* connect() raised because the listener ended without an endpoint and
\* without an error (the server closed the stream)
C31_Witness ==
    /\ caller.pc = "failed"
    /\ wire.connect = "ConnectionError: listener thread died"
    /\ listener.pc = "exited"
    /\ ~sse.connected
    /\ ~sse.error_event

(***************************************************************************)
(* C32                                                                     *)
(***************************************************************************)
\* McpClients(servers_config) raised after a client had connected
ConstructionFailedAfterConnect ==
    /\ pool.pc = "failed"
    /\ pool.clients # <<>>

\* C32: when the construction of the pool raises after at least one client
\* has connected, close() has been called on every connected client by the
\* time the exception leaves the constructor.
C32_FailedConstructionClosesConnected ==
    ConstructionFailedAfterConnect =>
       \A k \in 1..Len(pool.clients) :
          \E c \in 1..Len(pool.closes) : pool.closes[c].client = pool.clients[k]

(***************************************************************************)
(* C33                                                                     *)
(***************************************************************************)
IsLastRoundCall(e) == e.type = "call_start" /\ e.round = max_iteration_steps

\* the CALL logs started in round maximum_iterations
LastRoundCalls == SelectSeq(emitted, IsLastRoundCall)

\* round maximum_iterations has run to its end
LastRoundOver ==
    /\ iteration_step = max_iteration_steps + 1
    /\ pc \in {"loop", "close", "summary", "done"}

\* C33: when round maximum_iterations (the only round when
\* maximum_iterations = 1) extracts tool calls, every one of them is
\* dispatched and its result appended to the conversation, in order, and
\* no model invocation follows: the run has made maximum_iterations model
\* invocations, none in a later round, and the prompt of the last one ends
\* where the messages of that round begin.
C33_LastRoundToolsRunUnseen ==
    /\ \A k \in 1..Len(model_calls) : model_calls[k].round <= max_iteration_steps
    /\ (LastRoundOver /\ tool_calls # <<>>) =>
          LET msgs  == RoundMessages
              calls == LastRoundCalls
          IN  /\ Len(model_calls) = max_iteration_steps
              /\ model_calls[Len(model_calls)].round = max_iteration_steps
              /\ Len(calls) = Len(tool_calls)
              /\ Len(msgs) = 1 + Len(tool_calls)
              /\ \A i \in 1..Len(tool_calls) :
                    /\ calls[i].data = << tool_calls[i].name >>
                    /\ IsToolMessage(msgs[1 + i])
                    /\ msgs[1 + i].tool_call_id = tool_calls[i].id
                    /\ msgs[1 + i].name = tool_calls[i].name
              /\ Len(LastPromptThoughts) = round_base

\* a run of a single round ended with its summary: the round extracted a
\* tool call, the tool result is the last message of the conversation, and
\* the model was invoked once
C33_Witness ==
    /\ pc = "done"
    /\ max_iteration_steps = 1
    /\ tool_calls # <<>>
    /\ Len(model_calls) = 1
    /\ IsToolMessage(current_thoughts[Len(current_thoughts)])
    /\ Len(LastRoundCalls) = Len(tool_calls)

(***************************************************************************)
(* C34                                                                     *)
(***************************************************************************)
\* a round whose blocking result has been consumed
InBlockingRound == ~stream /\ pc = "tools"

\* the text the streamed path yields for the output of the round when it
\* arrives as one chunk: the tool calls of a chunk are looked at before its
\* content (lines 176-190)
StreamedText ==
    IF YieldTextDelta(function_call_state, iteration_step, max_iteration_steps)
    THEN response ELSE <<>>

\* C34: in a round with a blocking model result, whatever the round and
\* whether or not the result requests tool calls, the text yielded is the
\* whole text of the result, in at least one text message, which is a
\* single empty message when the content is empty; for a result that
\* requests a tool call in a round that is not the last one this differs
\* from the text the streamed path yields for the same output.
C34_BlockingTextAlwaysYielded ==
    InBlockingRound =>
       LET events == RoundTextEvents
       IN  /\ events # <<>>
           /\ RoundText = response
           /\ response = <<>> => events = << Event("text", iteration_step, <<>>) >>
           /\ (function_call_state /\ iteration_step < max_iteration_steps
                  /\ response # <<>>) => RoundText # StreamedText
           /\ ~(function_call_state /\ iteration_step < max_iteration_steps) =>
                 RoundText = StreamedText

\* a blocking result of a round that is not the last one carried text and a
\* tool call: the text was yielded, the streamed path would have withheld it
C34_Witness ==
    /\ InBlockingRound
    /\ iteration_step < max_iteration_steps
    /\ tool_calls # <<>>
    /\ response # <<>>
    /\ RoundText = response
    /\ StreamedText = <<>>

====
